---- MODULE Spec2Model ----
(***************************************************************************)
(* Standalone script generator of ilab-on-ocp (src/pipeline.py).           *)
(*                                                                         *)
(* Part 1: the executor locator, get_executor_details.                     *)
(* Part 2: the placeholder resolver, remove_template_markers.              *)
(* Part 3: the command cleanup, change_dsl_function_to_normal_function.    *)
(* Part 4: the driver, gen_standalone.                                     *)
(* Part 5: the MT-Bench component, run_mt_bench_op (src/eval/mt_bench.py). *)
(* Part 6: the task graph built by pipeline (src/pipeline.py).             *)
(* Part 7: the branch summary of run_final_eval_op                         *)
(*         (src/eval/final/components.py).                                 *)
(* Part 8: the job name of pytorchjob_manifest_op                          *)
(*         (src/training/components.py).                                   *)
(*                                                                         *)
(* A Python dict is modelled as the sequence of its (key, value) pairs in  *)
(* insertion order, with distinct keys; a Python str that the code only    *)
(* compares or copies is a TLA+ string; a Python str that the code scans   *)
(* with a regular expression is the sequence of its characters.            *)
(***************************************************************************)
EXTENDS Integers, Sequences, FiniteSets, TLC

VARIABLES
    documents,            \* the manifest: list of YAML documents (pipeline.py:633)
    executor_name,        \* argument of the last get_executor_details call
    located,              \* outcome of the last get_executor_details call
    rendered_code,        \* list argument of remove_template_markers and of
                          \* change_dsl_function_to_normal_function
    resolver_name,        \* executor_name argument of remove_template_markers
    executor_input_param, \* binding argument of remove_template_markers
    resolved,             \* outcome of the last remove_template_markers call
    normal_function,      \* outcome of the last
                          \* change_dsl_function_to_normal_function call
    pc,                   \* the step gen_standalone is at
    executor_index,       \* position of the loop over executors (pipeline.py:649)
    details,              \* the dict details (pipeline.py:648)
    template_content,     \* the template file as read (pipeline.py:678)
    rendered_script,      \* template.render(details) (pipeline.py:703)
    standalone_script,    \* content of the file standalone/standalone.py
    err_stream,           \* lines written with click.echo(..., err=True)
    outcome,              \* how the gen-standalone command has ended
    models_folder,        \* argument of run_mt_bench_op (mt_bench.py:8)
    files,                \* the paths that exist in the file system
    models_list,          \* the list models_list (mt_bench.py:174, 192)
    model_index,          \* position of the loop over models_list (mt_bench.py:193)
    attempt,              \* failed polls of the running launch_vllm (mt_bench.py:118)
    status_code,          \* what the last poll of launch_vllm got (mt_bench.py:120)
    servers,              \* vLLM processes started and not yet shut down
    scores,               \* the dict scores (mt_bench.py:176)
    mt_pc,                \* the step run_mt_bench_op is at
    outputs,              \* how run_mt_bench_op has ended
    sdg_only,             \* pipeline parameter (pipeline.py)
    train_only,           \* pipeline parameter (pipeline.py)
    branch,               \* the enabled branch whose tasks are followed
    started,              \* tasks of the branch that have started
    finished,             \* tasks of the branch that have succeeded
    qna_to_avg_scores,    \* candidate scores (final/components.py:284)
    base_qna_to_avg_scores, \* base scores (final/components.py:290)
    summary,              \* branch_eval_summary_to_json(...) (final/components.py:325)
    name_suffix,          \* argument of pytorchjob_manifest_op
    job_name              \* the name pytorchjob_manifest_op returns

locate_vars == <<documents, executor_name, located>>
resolve_vars == <<rendered_code, resolver_name, executor_input_param, resolved>>
dsl_vars == <<normal_function>>
gen_vars == <<pc, executor_index, details, template_content, rendered_script,
              standalone_script, err_stream, outcome>>

mt_vars == <<models_folder, files, models_list, model_index, attempt,
            status_code, servers, scores, mt_pc, outputs>>
dag_vars == <<sdg_only, train_only, branch, started, finished>>
eval_vars == <<qna_to_avg_scores, base_qna_to_avg_scores, summary>>
job_vars == <<name_suffix, job_name>>

vars == <<locate_vars, resolve_vars, dsl_vars, gen_vars, mt_vars, dag_vars,
          eval_vars, job_vars>>

(***************************************************************************)
(* Bounds of the model.                                                    *)
(***************************************************************************)
\* documents in one manifest
MaxDocs == 2
\* executor entries in one manifest, all documents and groups together
MaxExecutors == 2

(***************************************************************************)
(* Python dict helpers (insertion-ordered pairs).                          *)
(***************************************************************************)
\* key in d
DictHas(d, k) == \E i \in 1..Len(d) : d[i][1] = k

\* d[k], for a key that is present
DictAt(d, k) == d[CHOOSE i \in 1..Len(d) : d[i][1] = k][2]

\* d.get(k): None when the key is absent
DictGet(d, k) ==
    IF DictHas(d, k) THEN [none |-> FALSE, value |-> DictAt(d, k)]
    ELSE [none |-> TRUE, value |-> <<>>]

\* d.get(k, {})
DictGetOrEmpty(d, k) == IF DictHas(d, k) THEN DictAt(d, k) ELSE <<>>

\* Python truth value of d.get(k) for a mapping value: None and {} are falsy
Falsy(opt) == opt.none \/ Len(opt.value) = 0

(***************************************************************************)
(* Outcomes of get_executor_details.                                       *)
(***************************************************************************)
NotCalled == [kind |-> "not_called", command |-> <<>>, args |-> <<>>, image |-> "",
              error |-> ""]

\* return None (pipeline.py:753)
ReturnNone == [kind |-> "none", command |-> <<>>, args |-> <<>>, image |-> "",
               error |-> ""]

\* return {"command": ..., "args": ..., "image": ...} (pipeline.py:747-751)
ReturnDetails(container) ==
    [kind |-> "details",
     command |-> DictAt(container, "command"),
     args |-> DictAt(container, "args"),
     image |-> DictAt(container, "image"),
     error |-> ""]

\* raise ValueError(...)
RaiseValueError(which) == [kind |-> "ValueError", command |-> <<>>, args |-> <<>>,
                           image |-> "", error |-> which]

\* the loop over a group ran to its end without a match
NoMatch == [kind |-> "no_match", command |-> <<>>, args |-> <<>>, image |-> "",
            error |-> ""]

RequiredKeys == <<"command", "args", "image">>

\* all(key in container for key in ("command", "args", "image"))
ContainerComplete(container) ==
    \A n \in 1..Len(RequiredKeys) : DictHas(container, RequiredKeys[n])

\* the body of "if executor == executor_name:" (pipeline.py:739-751)
MatchedExecutor(executor_value) ==
    LET container == DictGetOrEmpty(executor_value, "container")
    IN  IF ~ContainerComplete(container)
        THEN RaiseValueError("IncompleteContainerSpec")
        ELSE ReturnDetails(container)

\* a faulty variant: an executor with an incomplete container is passed over
RECURSIVE SearchExecutorsSkipIncomplete(_, _, _)
SearchExecutorsSkipIncomplete(executors_value, name, i) ==
    IF i > Len(executors_value) THEN NoMatch
    ELSE IF /\ executors_value[i][1] = name
            /\ ContainerComplete(DictGetOrEmpty(executors_value[i][2], "container"))
         THEN MatchedExecutor(executors_value[i][2])
         ELSE SearchExecutorsSkipIncomplete(executors_value, name, i + 1)

\* for executor, executor_value in executors_value.items(): from entry i on
RECURSIVE SearchExecutors(_, _, _)
SearchExecutors(executors_value, name, i) ==
    IF i > Len(executors_value) THEN NoMatch
    ELSE IF executors_value[i][1] = name
         THEN MatchedExecutor(executors_value[i][2])
         ELSE SearchExecutors(executors_value, name, i + 1)

\* a faulty variant: only the first executor group is searched
SearchGroupsFirstOnly(deployment_spec, name, g) ==
    IF g > Len(deployment_spec) \/ g > 1 THEN NoMatch
    ELSE SearchExecutors(deployment_spec[g][2], name, 1)

\* for executors_value in deployment_spec.values(): from group g on
RECURSIVE SearchGroups(_, _, _)
SearchGroups(deployment_spec, name, g) ==
    IF g > Len(deployment_spec) THEN NoMatch
    ELSE LET r == SearchExecutors(deployment_spec[g][2], name, 1)
         IN  IF r.kind # "no_match" THEN r
             ELSE SearchGroups(deployment_spec, name, g + 1)

\* a faulty variant: an empty manifest is reported as "executor not found"
RECURSIVE ScanDocumentsEmptyIsNone(_, _, _, _)
ScanDocumentsEmptyIsNone(docs, name, d, deployment_spec_found) ==
    IF d > Len(docs)
    THEN IF ~deployment_spec_found /\ Len(docs) > 0
         THEN RaiseValueError("NoDeploymentSpec")
         ELSE ReturnNone
    ELSE LET deployment_spec == DictGet(docs[d], "deploymentSpec")
         IN  IF Falsy(deployment_spec)
             THEN ScanDocumentsEmptyIsNone(docs, name, d + 1, deployment_spec_found)
             ELSE LET r == SearchGroups(deployment_spec.value, name, 1)
                  IN  IF r.kind # "no_match" THEN r ELSE ReturnNone

\* for doc in documents: from document d on, and the code after the loop
\* (pipeline.py:730-757)
RECURSIVE ScanDocuments(_, _, _, _)
ScanDocuments(docs, name, d, deployment_spec_found) ==
    IF d > Len(docs)
    THEN IF ~deployment_spec_found
         THEN RaiseValueError("NoDeploymentSpec")
         ELSE ReturnNone
    ELSE LET deployment_spec == DictGet(docs[d], "deploymentSpec")
         IN  IF Falsy(deployment_spec)
             THEN ScanDocuments(docs, name, d + 1, deployment_spec_found)
             ELSE LET r == SearchGroups(deployment_spec.value, name, 1)
                  IN  IF r.kind # "no_match" THEN r ELSE ReturnNone

get_executor_details(docs, name) == ScanDocuments(docs, name, 1, FALSE)

(***************************************************************************)
(* The manifests the model draws from.                                     *)
(***************************************************************************)
\* executor names that occur in manifests
ManifestNames == {"exec-git-clone-op", "exec-sdg-op"}

\* executor names get_executor_details is asked for
LookupNames == ManifestNames \cup {""}

GroupNames == <<"executors", "extra">>

Container1 == << <<"command", <<"sh", "-c">> >>, <<"args", <<"--a", "--b">> >>,
                 <<"image", "img:1">> >>
Container2 == << <<"image", "img:2">>, <<"args", <<"--b", "--a">> >>,
                 <<"command", <<"-c", "sh">> >> >>

\* Container1 without one key
Without(container, k) == SelectSeq(container, LAMBDA p : p[1] # k)

ExecutorValues ==
    { << <<"container", Container1>> >>, << <<"container", Container2>> >>,
      << <<"container", Without(Container1, "command")>> >>,
      << <<"container", Without(Container1, "args")>> >>,
      << <<"container", Without(Container1, "image")>> >>,
      <<>> }

\* executor groups with exactly n entries, keys distinct
RECURSIVE GroupsExact(_)
GroupsExact(n) ==
    IF n = 0 THEN {<<>>}
    ELSE { Append(g, <<e, v>>) : g \in GroupsExact(n - 1), e \in ManifestNames,
                                 v \in ExecutorValues }

DistinctKeys(d) == \A i, j \in 1..Len(d) : d[i][1] = d[j][1] => i = j

Groups(n) == { g \in GroupsExact(n) : DistinctKeys(g) }

\* deploymentSpec mappings over the groups GroupNames[g..], every group with
\* at least one executor, n executors together; the first group has at
\* least k of them
RECURSIVE DeploymentSpecs(_, _, _)
DeploymentSpecs(g, n, k) ==
    IF n = 0 THEN {<<>>}
    ELSE IF g > Len(GroupNames) \/ k > n THEN {}
    ELSE LET rests == DeploymentSpecs(g + 1, n - k, 1)
         IN  { << <<GroupNames[g], grp>> >> \o rest : grp \in Groups(k), rest \in rests }
             \cup DeploymentSpecs(g, n, k + 1)

DocWith(ds) == << <<"pipelineInfo", <<>> >>, <<"deploymentSpec", ds>> >>

\* documents with exactly n executor entries; with none: a document without
\* the deploymentSpec key, one whose deploymentSpec is the empty mapping and
\* one whose deploymentSpec holds an empty group
Docs(n) ==
    IF n = 0
    THEN { << <<"platforms", <<>> >> >>, DocWith(<<>>),
           DocWith(<< <<GroupNames[1], <<>> >> >>) }
    ELSE { DocWith(ds) : ds \in DeploymentSpecs(1, n, 1) }

\* manifests of at most m documents with at most n executor entries; the
\* first document has at least k of them
RECURSIVE Manifests(_, _, _)
Manifests(m, n, k) ==
    IF m = 0 \/ k > n THEN {<<>>}
    ELSE LET rests == Manifests(m - 1, n - k, 0)
         IN  { <<doc>> \o rest : doc \in Docs(k), rest \in rests }
             \cup Manifests(m, n, k + 1)

(***************************************************************************)
(* The locator as a state machine: a manifest is loaded once; then         *)
(* get_executor_details is called for one executor name after the other.   *)
(***************************************************************************)
\* documents \in Manifests(MaxDocs, MaxExecutors, 0), drawn document by document
InitLocate ==
    /\ \/ documents = <<>>
       \/ \E k \in 0..MaxExecutors :
            \E doc \in Docs(k), rest \in Manifests(MaxDocs - 1, MaxExecutors - k, 0) :
                documents = <<doc>> \o rest
    /\ executor_name = ""
    /\ located = NotCalled

Locate(name) ==
    /\ executor_name' = name
    /\ located' = get_executor_details(documents, name)
    /\ UNCHANGED documents

(***************************************************************************)
(* Part 2: remove_template_markers (pipeline.py:760-801).                  *)
(*                                                                         *)
(* A string is the sequence of its characters, one TLA+ string per         *)
(* character; "U+00E9" stands for the one non-ASCII character e-acute.     *)
(***************************************************************************)
\* fragments an element is made of, all elements of the list together
MaxFrags == 2
\* elements of the list
MaxElems == 2

Quote == "'"
Backslash == "\\"
DoubleQuote == "\""

\* "{{$.inputs.parameters['" and "']}}" (pipeline.py:780)
InputOpen == <<"{", "{", "$", ".", "i", "n", "p", "u", "t", "s", ".", "p", "a", "r",
               "a", "m", "e", "t", "e", "r", "s", "[", "'">>
InputClose == <<"'", "]", "}", "}">>

\* "{{$.outputs.artifacts['" and "'].path}}" (pipeline.py:789)
OutputOpen == <<"{", "{", "$", ".", "o", "u", "t", "p", "u", "t", "s", ".", "a", "r",
                "t", "i", "f", "a", "c", "t", "s", "[", "'">>
OutputClose == <<"'", "]", ".", "p", "a", "t", "h", "}", "}">>

\* "{{$}}" (pipeline.py:795)
WholeInput == <<"{", "{", "$", "}", "}">>

\* "{TAXONOMY_PATH}" (pipeline.py:791)
TaxonomyToken == <<"{", "T", "A", "X", "O", "N", "O", "M", "Y", "_", "P", "A", "T",
                   "H", "}">>

\* The three patterns. A keyed pattern is open ([^']+) close; the third is a
\* literal.
InputPattern == [open |-> InputOpen, close |-> InputClose, keyed |-> TRUE]
OutputPattern == [open |-> OutputOpen, close |-> OutputClose, keyed |-> TRUE]
WholePattern == [open |-> WholeInput, close |-> <<>>, keyed |-> FALSE]

\* the least and the greatest element of a non-empty set of positions
First(S) == CHOOSE j \in S : \A k \in S : j <= k
Last(S) == CHOOSE j \in S : \A k \in S : j >= k

\* pieces[lo] \o ... \o pieces[hi]
RECURSIVE Concat(_, _, _)
Concat(pieces, lo, hi) ==
    IF lo > hi THEN <<>>
    ELSE IF lo = hi THEN pieces[lo]
    ELSE Concat(pieces, lo, (lo + hi) \div 2)
             \o Concat(pieces, (lo + hi) \div 2 + 1, hi)

\* the literal lit stands in s at position i
LiteralAt(s, lit, i) ==
    /\ i + Len(lit) - 1 <= Len(s)
    /\ \A n \in 1..Len(lit) : s[i + n - 1] = lit[n]

\* the end of the longest run of characters other than ' that starts at i
\* (the greedy [^']+ ; i - 1 when the run is empty)
KeyEnd(s, i) ==
    LET quotes == {j \in i..Len(s) : s[j] = Quote}
    IN  IF quotes = {} THEN Len(s) ELSE First(quotes) - 1

NoMatchAt == [matched |-> FALSE, next |-> 0, key |-> <<>>]

\* pattern.match at position i: the position after the match and group 1.
\* [^']+ cannot give back characters to let the close match earlier: every
\* character it took is not a quote, and the close starts with a quote.
MatchAt(pattern, s, i) ==
    IF ~LiteralAt(s, pattern.open, i) THEN NoMatchAt
    ELSE IF ~pattern.keyed
         THEN [matched |-> TRUE, next |-> i + Len(pattern.open), key |-> <<>>]
         ELSE LET first == i + Len(pattern.open)
                  last == KeyEnd(s, first)
              IN  IF last >= first /\ LiteralAt(s, pattern.close, last + 1)
                  THEN [matched |-> TRUE, next |-> last + 1 + Len(pattern.close),
                        key |-> SubSeq(s, first, last)]
                  ELSE NoMatchAt

(***************************************************************************)
(* The replacement template of re.sub (CPython re._parser.parse_template,  *)
(* called by the re.sub calls of pipeline.py:782, 791 and 797).  A parsed  *)
(* template is a sequence of parts: a literal character, or a reference to *)
(* group 1.  \g<name> and octal escapes are not modelled: no template of   *)
(* the model holds "\g" or a backslash before "0".                         *)
(***************************************************************************)
Digits == {"0", "1", "2", "3", "4", "5", "6", "7", "8", "9"}
AsciiLetters == {"a", "b", "c", "d", "e", "f", "g", "h", "i", "j", "k", "l", "m",
                 "n", "o", "p", "q", "r", "s", "t", "u", "v", "w", "x", "y", "z",
                 "A", "B", "C", "D", "E", "F", "G", "H", "I", "J", "K", "L", "M",
                 "N", "O", "P", "Q", "R", "S", "T", "U", "V", "W", "X", "Y", "Z"}

\* re._parser.ESCAPES, for the escapes valid in a template
TemplateEscapes == {"a", "b", "f", "n", "r", "t", "v", Backslash}
EscapedChar(c) ==
    CASE c = "a" -> "U+0007"
      [] c = "b" -> "U+0008"
      [] c = "f" -> "\f"
      [] c = "n" -> "\n"
      [] c = "r" -> "\r"
      [] c = "t" -> "\t"
      [] c = "v" -> "U+000B"
      [] OTHER -> Backslash

Lit(c) == [group |-> 0, ch |-> c]
GroupRef == [group |-> 1, ch |-> ""]
TemplateError == [error |-> TRUE, parts |-> <<>>]

\* the backslash at position i of t starts an escape: the backslashes that
\* stand right before it pair up
StartsEscape(t, i) ==
    /\ t[i] = Backslash
    /\ LET others == {j \in 1..(i - 1) : t[j] # Backslash}
           run == IF others = {} THEN i - 1 ELSE i - 1 - Last(others)
       IN  run % 2 = 0

\* what parse_template makes of position i of t: nothing for the second
\* character of an escape
ParsePosition(t, groups, i) ==
    IF i > 1 /\ StartsEscape(t, i - 1) THEN [error |-> FALSE, parts |-> <<>>]
    ELSE IF t[i] # Backslash THEN [error |-> FALSE, parts |-> <<Lit(t[i])>>]
    ELSE IF i = Len(t) THEN TemplateError                \* bad escape (end of pattern)
    ELSE LET c == t[i + 1] IN
         IF c \in Digits
         THEN IF c = "1" /\ groups >= 1 /\ (i + 2 > Len(t) \/ t[i + 2] \notin Digits)
              THEN [error |-> FALSE, parts |-> <<GroupRef>>]
              ELSE TemplateError                          \* invalid group reference
         ELSE IF c \in TemplateEscapes
         THEN [error |-> FALSE, parts |-> <<Lit(EscapedChar(c))>>]
         ELSE IF c \in AsciiLetters
         THEN TemplateError                               \* bad escape \c
         ELSE [error |-> FALSE, parts |-> <<Lit(Backslash), Lit(c)>>]

\* parse_template from position i on, parts being what was parsed so far;
\* groups is the number of groups of the pattern
ParseTemplate(t, groups, i, parts) ==
    LET parsed == [n \in 1..Len(t) |-> ParsePosition(t, groups, n)]
    IN  IF \E n \in i..Len(t) : parsed[n].error THEN TemplateError
        ELSE [error |-> FALSE,
              parts |-> parts \o Concat([n \in 1..Len(t) |-> parsed[n].parts],
                                        i, Len(t))]

\* the text a parsed template stands for, given group 1
Expand(parts, key, n) ==
    Concat([k \in 1..Len(parts) |->
                IF parts[k].group = 1 THEN key ELSE <<parts[k].ch>>],
           n, Len(parts))

\* the scan of re.sub: leftmost matches, left to right, not overlapping
RECURSIVE SubFrom(_, _, _, _)
SubFrom(pattern, parts, s, i) ==
    LET starts == {j \in i..Len(s) : MatchAt(pattern, s, j).matched}
    IN  IF starts = {} THEN SubSeq(s, i, Len(s))
        ELSE LET m == MatchAt(pattern, s, First(starts))
             IN  SubSeq(s, i, First(starts) - 1) \o Expand(parts, m.key, 1)
                     \o SubFrom(pattern, parts, s, m.next)

ReError == [kind |-> "re.error", value |-> <<>>]
Returned(list) == [kind |-> "list", value |-> list]
NotResolved == [kind |-> "not_called", value |-> <<>>]

\* [re.sub(pattern, template, element) for element in code]: the template is
\* parsed at the first call, so an empty list raises nothing
SubAll(pattern, template, code) ==
    LET parsed == ParseTemplate(template, IF pattern.keyed THEN 1 ELSE 0, 1, <<>>)
    IN  IF Len(code) = 0 THEN Returned(<<>>)
        ELSE IF parsed.error THEN ReError
        ELSE Returned([n \in 1..Len(code) |-> SubFrom(pattern, parsed.parts, code[n], 1)])

(***************************************************************************)
(* json.dumps(executor_input_param) (pipeline.py:797), with the default    *)
(* ensure_ascii: a str, or a dict of str to str.                           *)
(***************************************************************************)
NonAscii == {"U+00E9"}

\* json.encoder.ESCAPE_DCT and the \uXXXX escape
JsonEscape(c) ==
    CASE c = DoubleQuote -> <<Backslash, DoubleQuote>>
      [] c = Backslash -> <<Backslash, Backslash>>
      [] c = "\n" -> <<Backslash, "n">>
      [] c = "\r" -> <<Backslash, "r">>
      [] c = "\t" -> <<Backslash, "t">>
      [] c = "\f" -> <<Backslash, "f">>
      [] c = "U+00E9" -> <<Backslash, "u", "0", "0", "e", "9">>
      [] OTHER -> <<c>>

JsonEscapeAll(s, i) ==
    Concat([n \in 1..Len(s) |-> JsonEscape(s[n])], i, Len(s))

JsonString(s) == <<DoubleQuote>> \o JsonEscapeAll(s, 1) \o <<DoubleQuote>>

RECURSIVE JsonItems(_, _)
JsonItems(items, i) ==
    IF i > Len(items) THEN <<>>
    ELSE (IF i > 1 THEN <<",", " ">> ELSE <<>>)
         \o JsonString(items[i][1]) \o <<":", " ">> \o JsonString(items[i][2])
         \o JsonItems(items, i + 1)

json_dumps(param) ==
    IF param.type = "str" THEN JsonString(param.s)
    ELSE <<"{">> \o JsonItems(param.items, 1) \o <<"}">>

(***************************************************************************)
(* remove_template_markers.                                                *)
(***************************************************************************)
\* r"{%s_\1}" % executor_name (pipeline.py:782)
HoleTemplate(name) == <<"{">> \o name \o <<"_", Backslash, "1", "}">>

remove_template_markers(code, name, param) ==
    LET first == SubAll(InputPattern, HoleTemplate(name), code)
    IN  IF first.kind # "list" THEN first
        ELSE LET second == SubAll(OutputPattern, TaxonomyToken, first.value)
             IN  IF second.kind # "list" THEN second
                 ELSE SubAll(WholePattern, json_dumps(param), second.value)

(***************************************************************************)
(* The inputs of remove_template_markers the model draws from.             *)
(***************************************************************************)
\* keys of the input parameter references: a plain key, a key that is itself
\* the text "{{$}}" and a key that is its first three characters (the pattern
\* accepts every key without a quote)
PlainKey == <<"a">>
OpenKey == <<"{", "{", "$">>
Keys == {PlainKey, WholeInput, OpenKey}

ArtifactKeys == {<<"t", "a", "x", "o", "n", "o", "m", "y">>, <<"o", "t", "h", "e", "r">>}

InputRef(k) == InputOpen \o k \o InputClose
OutputRef(k) == OutputOpen \o k \o OutputClose

Fragments ==
    { InputRef(k) : k \in Keys } \cup { OutputRef(k) : k \in ArtifactKeys }
    \cup { WholeInput, <<"s", "h">>, InputOpen, <<"}">> }

\* strings made of exactly n fragments
RECURSIVE ElementsExact(_)
ElementsExact(n) ==
    IF n = 0 THEN {<<>>}
    ELSE { f \o e : f \in Fragments, e \in ElementsExact(n - 1) }

\* lists of at most m strings made of at most n fragments together
RECURSIVE CodeLists(_, _)
CodeLists(m, n) ==
    IF m = 0 THEN {<<>>}
    ELSE {<<>>} \cup UNION { { <<e>> \o rest :
                                 e \in ElementsExact(k), rest \in CodeLists(m - 1, n - k) }
                             : k \in 0..n }

\* executor names, with "-" already replaced by "_" (pipeline.py:651)
ResolverNames == { <<"e", "x", "e", "c">>,
                   <<"e", "x", "e", "c", "_", "g", "i", "t", "_", "c", "l", "o", "n",
                     "e", "_", "o", "p">> }

StrParam(s) == [type |-> "str", s |-> s, items |-> <<>>]
DictParam(items) == [type |-> "dict", s |-> <<>>, items |-> items]

\* the binding of exec-git-clone-op (pipeline.py:642)
EmptyDict == DictParam(<<>>)

\* the binding a = "5"
BoundValue == <<"5">>
PlainBinding == DictParam(<< <<PlainKey, BoundValue>> >>)

Params ==
    { EmptyDict, PlainBinding, StrParam(<<"U+00E9">>), StrParam(<<Backslash>>),
      StrParam(<<"\n">>), StrParam(WholeInput) }

(***************************************************************************)
(* The two state machines.                                                 *)
(***************************************************************************)
IdleLocate ==
    /\ documents = <<>>
    /\ executor_name = ""
    /\ located = NotCalled

IdleResolve ==
    /\ rendered_code = <<>>
    /\ resolver_name = <<>>
    /\ executor_input_param = EmptyDict
    /\ resolved = NotResolved

InitResolve ==
    /\ rendered_code \in CodeLists(MaxElems, MaxFrags)
    /\ resolver_name \in ResolverNames
    /\ executor_input_param \in Params
    /\ resolved = NotResolved

Resolve ==
    /\ resolved' = remove_template_markers(rendered_code, resolver_name,
                                           executor_input_param)
    /\ UNCHANGED <<rendered_code, resolver_name, executor_input_param>>

\* change_dsl_function_to_normal_function has not been called
NotConverted == [kind |-> "not_called", value |-> <<>>]

IdleDsl == normal_function = NotConverted

\* the previous content of standalone/standalone.py
PreviousScript == [written |-> FALSE, text |-> <<>>]

\* gen_standalone has not been started
IdleGen ==
    /\ pc = "not_started"
    /\ executor_index = 0
    /\ details = <<>>
    /\ template_content = <<>>
    /\ rendered_script = <<>>
    /\ standalone_script = PreviousScript
    /\ err_stream = <<>>
    /\ outcome = "none"

\* run_mt_bench_op has not been started
NotEnded ==
    [kind |-> "none", best_model |-> [abs |-> FALSE, parts |-> <<>>],
     best_score |-> 0]

IdleMtBench ==
    /\ models_folder = <<>>
    /\ files = {}
    /\ models_list = <<>>
    /\ model_index = 0
    /\ attempt = 0
    /\ status_code = "none"
    /\ servers = {}
    /\ scores = <<>>
    /\ mt_pc = "not_started"
    /\ outputs = NotEnded

\* no pipeline run is followed
IdleDag ==
    /\ sdg_only = FALSE
    /\ train_only = FALSE
    /\ branch = "none"
    /\ started = {}
    /\ finished = {}

\* branch_eval_summary_to_json has not been called
NoSummary == [called |-> FALSE, improvements |-> <<>>, regressions |-> <<>>,
              no_changes |-> <<>>, new |-> <<>>]

IdleEval ==
    /\ qna_to_avg_scores = <<>>
    /\ base_qna_to_avg_scores = <<>>
    /\ summary = NoSummary

\* pytorchjob_manifest_op has not been called
NoName == [called |-> FALSE, value |-> <<>>]

IdleJob ==
    /\ name_suffix = <<>>
    /\ job_name = NoName

LocateInit ==
    /\ InitLocate /\ IdleResolve /\ IdleDsl /\ IdleGen
    /\ IdleMtBench /\ IdleDag /\ IdleEval /\ IdleJob
LocateNext ==
    \E name \in LookupNames :
        Locate(name) /\ UNCHANGED <<resolve_vars, dsl_vars, gen_vars, mt_vars,
                                    dag_vars, eval_vars, job_vars>>
SpecLocate == LocateInit /\ [][LocateNext]_vars

ResolveInit ==
    /\ InitResolve /\ IdleLocate /\ IdleDsl /\ IdleGen
    /\ IdleMtBench /\ IdleDag /\ IdleEval /\ IdleJob
ResolveNext ==
    Resolve /\ UNCHANGED <<locate_vars, dsl_vars, gen_vars, mt_vars, dag_vars,
                           eval_vars, job_vars>>
SpecResolve == ResolveInit /\ [][ResolveNext]_vars

(***************************************************************************)
(* Part 3: change_dsl_function_to_normal_function (pipeline.py:804-830).   *)
(***************************************************************************)
\* fragments the last element of a command is made of
MaxDslFrags == 3

\* the dict replacements, in insertion order (pipeline.py:805-816)
replacements ==
    << << <<"d", "s", "l", ".", "I", "n", "p", "u", "t", "[", "d", "s", "l", ".",
          "D", "a", "t", "a", "s", "e", "t", "]">>, <<"s", "t", "r">> >>,
       << <<"d", "s", "l", ".", "I", "n", "p", "u", "t", "[", "d", "s", "l", ".",
          "M", "o", "d", "e", "l", "]">>, <<"s", "t", "r">> >>,
       << <<"d", "s", "l", ".", "I", "n", "p", "u", "t", "[", "d", "s", "l", ".",
          "A", "r", "t", "i", "f", "a", "c", "t", "]">>, <<"s", "t", "r">> >>,
       << <<"d", "s", "l", ".", "O", "u", "t", "p", "u", "t", "[", "d", "s", "l",
          ".", "D", "a", "t", "a", "s", "e", "t", "]">>, <<"s", "t", "r">> >>,
       << <<"d", "s", "l", ".", "O", "u", "t", "p", "u", "t", "[", "d", "s", "l",
          ".", "M", "o", "d", "e", "l", "]">>, <<"s", "t", "r">> >>,
       << <<"O", "u", "t", "p", "u", "t", "[", "A", "r", "t", "i", "f", "a", "c",
          "t", "]">>, <<"s", "t", "r">> >>,
       << <<"I", "n", "p", "u", "t", "[", "D", "a", "t", "a", "s", "e", "t", "]">>,
          <<"s", "t", "r">> >>,
       << <<"i", "m", "p", "o", "r", "t", " ", "k", "f", "p">>, <<>> >>,
       << <<"f", "r", "o", "m", " ", "k", "f", "p", " ", "i", "m", "p", "o", "r",
          "t", " ", "d", "s", "l">>, <<>> >>,
       << <<"f", "r", "o", "m", " ", "k", "f", "p", ".", "d", "s", "l", " ", "i",
          "m", "p", "o", "r", "t", " ", "*">>, <<>> >> >>

DotPath == <<".", "p", "a", "t", "h">>
OsPath == <<"o", "s">> \o DotPath

\* (?<!os)\.path matches at position i of line
PathPatternAt(line, i) ==
    /\ LiteralAt(line, DotPath, i)
    /\ ~(i >= 3 /\ line[i - 2] = "o" /\ line[i - 1] = "s")

\* path_pattern.sub("", line) from position i on: the lookbehind reads the
\* characters of line itself, also those of a match before it
RECURSIVE RemovePathFrom(_, _)
RemovePathFrom(line, i) ==
    LET starts == {j \in i..Len(line) : PathPatternAt(line, j)}
    IN  IF starts = {} THEN SubSeq(line, i, Len(line))
        ELSE SubSeq(line, i, First(starts) - 1)
                 \o RemovePathFrom(line, First(starts) + Len(DotPath))

remove_path_not_os_path(line) == RemovePathFrom(line, 1)

\* line.replace(old, new) from position i on: leftmost occurrences, left to
\* right, not overlapping
RECURSIVE ReplaceFrom(_, _, _, _)
ReplaceFrom(line, old, new, i) ==
    LET starts == {j \in i..Len(line) : LiteralAt(line, old, j)}
    IN  IF starts = {} THEN SubSeq(line, i, Len(line))
        ELSE SubSeq(line, i, First(starts) - 1) \o new
                 \o ReplaceFrom(line, old, new, First(starts) + Len(old))

\* for old, new in replacements.items(): from entry k on (no entry has an
\* empty old, so an empty line stays empty)
RECURSIVE ApplyReplacements(_, _)
ApplyReplacements(line, k) ==
    IF Len(line) = 0 \/ k > Len(replacements) THEN line
    ELSE ApplyReplacements(ReplaceFrom(line, replacements[k][1], replacements[k][2], 1),
                           k + 1)

\* the characters str.strip() removes, of those the model holds
Whitespace == {" ", "\n", "\t", "\r", "\f", "U+000B"}

\* the positions of line that hold no whitespace
Inked(line) == {j \in 1..Len(line) : line[j] \notin Whitespace}

LStrip(line) ==
    IF Inked(line) = {} THEN <<>> ELSE SubSeq(line, First(Inked(line)), Len(line))

RStrip(line) ==
    IF Inked(line) = {} THEN <<>> ELSE SubSeq(line, 1, Last(Inked(line)))

Strip(line) == RStrip(LStrip(line))

\* the cleanup of one element (pipeline.py:826-829)
CleanLine(line) == ApplyReplacements(remove_path_not_os_path(line), 1)

Converted(text) == [kind |-> "str", value |-> text]

\* rendered_code[-1] of an empty list
IndexError == [kind |-> "IndexError", value |-> <<>>]

\* a faulty variant: the cleaned elements are joined with a space
RECURSIVE JoinCleaned(_, _)
JoinCleaned(code, n) ==
    IF n > Len(code) THEN <<>>
    ELSE (IF n > 1 THEN <<" ">> ELSE <<>>) \o CleanLine(code[n]) \o JoinCleaned(code, n + 1)

change_dsl_function_joining(code) == Converted(Strip(JoinCleaned(code, 1)))

change_dsl_function_to_normal_function(code) ==
    LET cleaned == [n \in 1..Len(code) |-> CleanLine(code[n])]
    IN  IF Len(cleaned) = 0 THEN IndexError
        ELSE Converted(Strip(cleaned[Len(cleaned)]))

(***************************************************************************)
(* The commands change_dsl_function_to_normal_function is checked on: the  *)
(* last element is made of at most MaxDslFrags fragments, and at most one  *)
(* element stands before it.                                               *)
(***************************************************************************)
DslFragments ==
    { DotPath, <<"o", "s">>, <<".", "p", "a">>, <<"t", "h">>, <<"x">>, <<" ">>,
      <<"i", "m", "p", "o", "r", "t", " ", "k", "f", "p">>,
      <<"I", "n", "p", "u", "t", "[", "D", "a", "t", "a", "s", "e", "t", "]">> }

\* strings made of at most n fragments
RECURSIVE DslElements(_)
DslElements(n) ==
    IF n = 0 THEN {<<>>}
    ELSE LET shorter == DslElements(n - 1)
         IN  shorter \cup { f \o e : f \in DslFragments, e \in shorter }

InitDsl ==
    /\ \/ rendered_code = <<>>
       \/ \E e \in DslElements(MaxDslFrags) :
            \/ rendered_code = <<e>>
            \/ \E f \in DslFragments : rendered_code = <<f, e>>
    /\ resolver_name = <<>>
    /\ executor_input_param = EmptyDict
    /\ resolved = NotResolved
    /\ normal_function = NotConverted

Convert ==
    /\ normal_function' = change_dsl_function_to_normal_function(rendered_code)
    /\ UNCHANGED resolve_vars

DslInit ==
    /\ InitDsl /\ IdleLocate /\ IdleGen
    /\ IdleMtBench /\ IdleDag /\ IdleEval /\ IdleJob
DslNext ==
    Convert /\ UNCHANGED <<locate_vars, gen_vars, mt_vars, dag_vars, eval_vars,
                           job_vars>>
SpecDsl == DslInit /\ [][DslNext]_vars

(***************************************************************************)
(* Part 4: gen_standalone (pipeline.py:607-710), one action per step of    *)
(* the command.  The manifest and the template are files: what they hold   *)
(* is drawn when the step that reads them runs.                            *)
(***************************************************************************)
\* executor entries in the manifest gen_standalone loads
MaxGenExecutors == 2

DataProcessingOp == <<"e", "x", "e", "c", "-", "d", "a", "t", "a", "-", "p",
    "r", "o", "c", "e", "s", "s", "i", "n", "g", "-", "o", "p">>
SdgOp == <<"e", "x", "e", "c", "-", "s", "d", "g", "-", "o", "p">>
GitCloneOp == <<"e", "x", "e", "c", "-", "g", "i", "t", "-", "c", "l", "o",
    "n", "e", "-", "o", "p">>
HuggingfaceImporterOp == <<"e", "x", "e", "c", "-", "h", "u", "g", "g", "i",
    "n", "g", "f", "a", "c", "e", "-", "i", "m", "p", "o", "r", "t", "e", "r",
    "-", "o", "p">>
RunMtBenchOp == <<"e", "x", "e", "c", "-", "r", "u", "n", "-", "m", "t", "-",
    "b", "e", "n", "c", "h", "-", "o", "p">>
RunFinalEvalOp == <<"e", "x", "e", "c", "-", "r", "u", "n", "-", "f", "i",
    "n", "a", "l", "-", "e", "v", "a", "l", "-", "o", "p">>

\* the dict executors, in insertion order: name and binding
\* (pipeline.py:639-646)
executors ==
    << <<DataProcessingOp,
          "data_processing_op(max_seq_len={MAX_SEQ_LEN}, max_batch_len={MAX_BATCH_LEN}, sdg_path=\"{DATA_PVC_SDG_PATH}\", model_path=\"{DATA_PVC_MODEL_PATH}\", skills_path=\"{PREPROCESSED_DATA_SKILLS_PATH}\", knowledge_path=\"{PREPROCESSED_DATA_KNOWLEDGE_PATH}\")">>,
       <<SdgOp,
          "sdg_op(num_instructions_to_generate={num_instructions_to_generate}, pipeline=\"{sdg_pipeline}\", repo_branch=\"{exec_git_clone_op_repo_branch}\", repo_pr={exec_git_clone_op_repo_pr}, taxonomy_path=\"{TAXONOMY_DATA_PATH}\", sdg_path=\"{DATA_PVC_SDG_PATH}\")">>,
       <<GitCloneOp, EmptyDict>>,
       <<HuggingfaceImporterOp,
          "huggingface_importer_op(repo_name=\"{REPO_GRANITE_7B_IMAGE}\", model_path=\"{DATA_PVC_MODEL_PATH}\")">>,
       <<RunMtBenchOp,
          "run_mt_bench_op(best_score_file=\"{MT_BENCH_SCORES_PATH}\",output_path=\"{MT_BENCH_OUTPUT_PATH}\",models_folder=\"{CANDIDATE_MODEL_PATH_PREFIX}\",models_path_prefix=\"{CANDIDATE_MODEL_PATH_PREFIX}\", max_workers=\"{MAX_WORKERS}\", merge_system_user_message={MERGE_SYSTEM_USER_MESSAGE})">>,
       <<RunFinalEvalOp,
          "run_final_eval_op(mmlu_branch_output=\"{MMLU_BRANCH_SCORES_PATH}\", mt_bench_branch_output=\"{MT_BENCH_BRANCH_SCORES_PATH}\", candidate_model=\"{CANDIDATE_MODEL_PATH}\", taxonomy_path=\"{TAXONOMY_PATH}\", sdg_path=\"{DATA_PVC_SDG_PATH}\", base_branch=\"\", candidate_branch=\"\", device=None, base_model_dir=\"{DATA_PVC_MODEL_PATH}\", max_workers=\"{MAX_WORKERS}\", merge_system_user_message={MERGE_SYSTEM_USER_MESSAGE}, model_dtype=\"{MODEL_DTYPE}\", few_shots={FEW_SHOTS}, batch_size=\"{BATCH_SIZE}\")">> >>

\* executor_name.replace("-", "_") (pipeline.py:651)
Camelize(name) == [n \in 1..Len(name) |-> IF name[n] = "-" THEN "_" ELSE name[n]]

ImageSuffix == <<"_", "i", "m", "a", "g", "e">>
CommandSuffix == <<"_", "c", "o", "m", "m", "a", "n", "d">>
ArgsSuffix == <<"_", "a", "r", "g", "s">>

\* d[k] = v
DictPut(d, k, v) ==
    IF DictHas(d, k)
    THEN [n \in 1..Len(d) |-> IF d[n][1] = k THEN <<k, v>> ELSE d[n]]
    ELSE Append(d, <<k, v>>)

\* the containers of the manifests: a command of three elements whose last
\* one holds a ".path" and surrounding whitespace, with args that hold
\* placeholders; a command of one element; an empty command; a container
\* without image
GenCommand1 == << <<"s", "h">>, <<"-", "c">>,
                  <<" ", "f", "(", "x", ".", "p", "a", "t", "h", ")", "\n">> >>
GenCommand2 == << <<"g", "(", ")">> >>
GenArgs1 == <<InputRef(PlainKey), WholeInput>>
GenArgs2 == << <<"s", "h">> >>

GenContainer(command, args, image) ==
    << <<"image", image>>, <<"command", command>>, <<"args", args>> >>

GenContainers ==
    { GenContainer(GenCommand1, GenArgs1, "img:1"),
      GenContainer(GenCommand2, GenArgs2, "img:2"),
      GenContainer(<<>>, GenArgs2, "img:2"),
      Without(GenContainer(GenCommand1, GenArgs1, "img:1"), "image") }

\* executor groups of at most n entries for the executors i.., in the order
\* of the dict executors
RECURSIVE GenGroups(_, _)
GenGroups(i, n) ==
    IF i > Len(executors) \/ n = 0 THEN {<<>>}
    ELSE LET later == GenGroups(i + 1, n)
             fewer == GenGroups(i + 1, n - 1)
         IN  later \cup { << <<executors[i][1], << <<"container", c>> >> >> >> \o g :
                              c \in GenContainers, g \in fewer }

\* the manifests: an empty list of documents, a document without
\* deploymentSpec, and one document with one group of executors
GenManifests ==
    { <<>>, << << <<"platforms", <<>> >> >> >> }
    \cup { << DocWith(<< <<GroupNames[1], g>> >>) >> : g \in GenGroups(1, MaxGenExecutors) }

\* A template is the sequence of its parts: text, a variable {{ name }}, or
\* a "{{" that is never closed.
TextPart == [kind |-> "text", name |-> <<>>]
VariablePart(name) == [kind |-> "variable", name |-> name]
UnclosedPart == [kind |-> "unclosed", name |-> <<>>]

\* the names <executor>_image, <executor>_command and <executor>_args
Slots ==
    { Camelize(executors[i][1]) \o suffix :
          i \in 1..Len(executors), suffix \in {ImageSuffix, CommandSuffix, ArgsSuffix} }

Templates ==
    { <<TextPart>>, <<TextPart, UnclosedPart>> }
    \cup { <<TextPart, VariablePart(slot), TextPart>> : slot \in Slots }

\* Template(template_content) raises TemplateSyntaxError
SyntaxError(content) == \E n \in 1..Len(content) : content[n].kind = "unclosed"

\* template.render(details) with the default jinja2 Undefined: a variable
\* that details does not hold renders as the empty text
RenderPart(part, d) ==
    IF part.kind = "text" THEN [kind |-> "text", defined |-> TRUE, value |-> <<>>]
    ELSE IF DictHas(d, part.name)
    THEN [kind |-> "value", defined |-> TRUE, value |-> DictAt(d, part.name)]
    ELSE [kind |-> "value", defined |-> FALSE, value |-> <<>>]

render(content, d) == [n \in 1..Len(content) |-> RenderPart(content[n], d)]

\* the command has been started (pipeline.py:608-623)
InitGen ==
    /\ pc = "generate_pipeline"
    /\ executor_index = 0
    /\ details = <<>>
    /\ template_content = <<>>
    /\ rendered_script = <<>>
    /\ standalone_script = PreviousScript
    /\ err_stream = <<>>
    /\ outcome = "none"

\* click.echo(f"Error: {e}", err=True); raise click.exceptions.Exit(1)
Exit1(e) ==
    /\ err_stream' = Append(err_stream, [prefix |-> "Error: ", e |-> e])
    /\ outcome' = "Exit(1)"
    /\ pc' = "ended"

\* an exception that no handler of gen_standalone catches
Uncaught(exception) ==
    /\ outcome' = exception
    /\ pc' = "ended"
    /\ UNCHANGED err_stream

\* pipeline.py:623-628
GeneratePipeline ==
    /\ pc = "generate_pipeline"
    /\ \/ pc' = "load" /\ UNCHANGED <<err_stream, outcome>>
       \/ Exit1("ValueError")
    /\ UNCHANGED <<executor_index, details, template_content, rendered_script,
                   standalone_script>>
    /\ UNCHANGED <<locate_vars, resolve_vars, dsl_vars>>

\* pipeline.py:631-636: yaml.YAMLError is not a ValueError; a file that is
\* not UTF-8 raises UnicodeDecodeError, which is one
LoadManifest ==
    /\ pc = "load"
    /\ \/ /\ documents' \in GenManifests
          /\ pc' = "lookup"
          /\ executor_index' = 1
          /\ UNCHANGED <<err_stream, outcome>>
       \/ Exit1("UnicodeDecodeError") /\ UNCHANGED <<documents, executor_index>>
       \/ Uncaught("yaml.YAMLError") /\ UNCHANGED <<documents, executor_index>>
    /\ UNCHANGED <<details, template_content, rendered_script, standalone_script>>
    /\ UNCHANGED <<executor_name, located, resolve_vars, dsl_vars>>

\* the end of one turn of the loop over executors
Advance ==
    /\ executor_index' = executor_index + 1
    /\ pc' = IF executor_index = Len(executors) THEN "open_template" ELSE "lookup"
    /\ UNCHANGED <<err_stream, outcome>>

\* a faulty variant: an executor that is not found ends the command
ExecutorNotFoundExits ==
    /\ Exit1("ExecutorNotFound")
    /\ UNCHANGED <<executor_index, details, resolve_vars, dsl_vars>>

\* executor_details is None (pipeline.py:654): nothing is added to details
ExecutorNotFound ==
    /\ Advance
    /\ UNCHANGED <<details, resolve_vars, dsl_vars>>

\* executor_details is not None (pipeline.py:655-666)
ExecutorFound(name, param, executor_details) ==
    LET executor_name_camelize == Camelize(name)
        with_image == DictPut(details, executor_name_camelize \o ImageSuffix,
                              executor_details.image)
        command == change_dsl_function_to_normal_function(executor_details.command)
        with_command == DictPut(with_image, executor_name_camelize \o CommandSuffix,
                                command.value)
        args == remove_template_markers(executor_details.args,
                                        executor_name_camelize, param)
    IN  /\ normal_function' = command
        /\ IF command.kind = "IndexError"
           THEN /\ details' = with_image
                /\ Uncaught("IndexError")
                /\ UNCHANGED <<executor_index, resolve_vars>>
           ELSE IF name = GitCloneOp
           THEN /\ rendered_code' = executor_details.args
                /\ resolver_name' = executor_name_camelize
                /\ executor_input_param' = param
                /\ resolved' = args
                /\ IF args.kind = "re.error"
                   THEN /\ details' = with_command
                        /\ Uncaught("re.error")
                        /\ UNCHANGED executor_index
                   ELSE /\ details' = DictPut(with_command,
                                              executor_name_camelize \o ArgsSuffix,
                                              args.value)
                        /\ Advance
           ELSE /\ details' = DictPut(with_command,
                                      executor_name_camelize \o ArgsSuffix, param)
                /\ Advance
                /\ UNCHANGED resolve_vars

\* one turn of the loop (pipeline.py:649-670)
LoopTurn ==
    LET name == executors[executor_index][1]
        param == executors[executor_index][2]
        executor_details == get_executor_details(documents, name)
    IN  /\ executor_name' = name
        /\ located' = executor_details
        /\ CASE executor_details.kind = "ValueError" ->
                    /\ Exit1(executor_details.error)
                    /\ UNCHANGED <<executor_index, details, resolve_vars, dsl_vars>>
             [] executor_details.kind = "none" -> ExecutorNotFound
             [] OTHER -> ExecutorFound(name, param, executor_details)

\* a faulty variant: the lookup takes the first document out of the list
LookupExecutorConsuming ==
    /\ pc = "lookup"
    /\ LoopTurn
    /\ documents' = SubSeq(documents, 2, Len(documents))
    /\ UNCHANGED <<template_content, rendered_script, standalone_script>>

LookupExecutor ==
    /\ pc = "lookup"
    /\ LoopTurn
    /\ UNCHANGED <<documents, template_content, rendered_script, standalone_script>>

\* pipeline.py:673-690
OpenTemplate ==
    /\ pc = "open_template"
    /\ \/ /\ template_content' \in Templates
          /\ pc' = "make_template"
          /\ UNCHANGED <<err_stream, outcome>>
       \/ Exit1("FileNotFoundError") /\ UNCHANGED template_content
       \/ Exit1("IOError") /\ UNCHANGED template_content
    /\ UNCHANGED <<executor_index, details, rendered_script, standalone_script>>
    /\ UNCHANGED <<locate_vars, resolve_vars, dsl_vars>>

\* a faulty variant: the output file is opened for writing before the
\* template is parsed
MakeTemplateOpeningOutput ==
    /\ pc = "make_template"
    /\ standalone_script' = [written |-> TRUE, text |-> <<>>]
    /\ IF SyntaxError(template_content)
       THEN Exit1("TemplateSyntaxError")
       ELSE pc' = "render" /\ UNCHANGED <<err_stream, outcome>>
    /\ UNCHANGED <<executor_index, details, template_content, rendered_script>>
    /\ UNCHANGED <<locate_vars, resolve_vars, dsl_vars>>

\* pipeline.py:693-700
MakeTemplate ==
    /\ pc = "make_template"
    /\ IF SyntaxError(template_content)
       THEN Exit1("TemplateSyntaxError")
       ELSE pc' = "render" /\ UNCHANGED <<err_stream, outcome>>
    /\ UNCHANGED <<executor_index, details, template_content, rendered_script,
                   standalone_script>>
    /\ UNCHANGED <<locate_vars, resolve_vars, dsl_vars>>

\* pipeline.py:703
RenderTemplate ==
    /\ pc = "render"
    /\ rendered_script' = render(template_content, details)
    /\ pc' = "write"
    /\ UNCHANGED <<executor_index, details, template_content, standalone_script,
                   err_stream, outcome>>
    /\ UNCHANGED <<locate_vars, resolve_vars, dsl_vars>>

\* pipeline.py:706-710
WriteScript ==
    /\ pc = "write"
    /\ standalone_script' = [written |-> TRUE, text |-> rendered_script]
    /\ pc' = "ended"
    /\ outcome' = "returned"
    /\ UNCHANGED <<executor_index, details, template_content, rendered_script,
                   err_stream>>
    /\ UNCHANGED <<locate_vars, resolve_vars, dsl_vars>>

GenInit ==
    /\ InitGen
    /\ documents = <<>>
    /\ executor_name = <<>>
    /\ located = NotCalled
    /\ IdleResolve
    /\ IdleDsl
    /\ IdleMtBench /\ IdleDag /\ IdleEval /\ IdleJob

\* what no step of gen_standalone touches
other_vars == <<mt_vars, dag_vars, eval_vars, job_vars>>

GenNext ==
    \/ GeneratePipeline /\ UNCHANGED other_vars
    \/ LoadManifest /\ UNCHANGED other_vars
    \/ LookupExecutor /\ UNCHANGED other_vars
    \/ OpenTemplate /\ UNCHANGED other_vars
    \/ MakeTemplate /\ UNCHANGED other_vars
    \/ RenderTemplate /\ UNCHANGED other_vars
    \/ WriteScript /\ UNCHANGED other_vars

SpecGen == GenInit /\ [][GenNext]_vars

(***************************************************************************)
(* The manifest as the claims below read it: the executor entries of       *)
(* document d, each at a position <<g, i>> (group g, entry i), in the      *)
(* order of the mapping.                                                   *)
(***************************************************************************)
Called == located.kind # "not_called"

HasSpecKey(d) == \E n \in 1..Len(documents[d]) : documents[d][n][1] = "deploymentSpec"

SpecOf(d) ==
    IF HasSpecKey(d)
    THEN documents[d][CHOOSE n \in 1..Len(documents[d]) :
                        documents[d][n][1] = "deploymentSpec"][2]
    ELSE <<>>

EntryPositions(d) ==
    UNION { { <<g, i>> : i \in 1..Len(SpecOf(d)[g][2]) } : g \in 1..Len(SpecOf(d)) }

EntryName(d, pos) == SpecOf(d)[pos[1]][2][pos[2]][1]

EntryValue(d, pos) == SpecOf(d)[pos[1]][2][pos[2]][2]

\* the container object of an entry, the empty mapping when it has none
EntryContainer(d, pos) ==
    LET v == EntryValue(d, pos)
    IN  IF \E n \in 1..Len(v) : v[n][1] = "container"
        THEN v[CHOOSE n \in 1..Len(v) : v[n][1] = "container"][2]
        ELSE <<>>

HasField(c, k) == \E n \in 1..Len(c) : c[n][1] = k
FieldOf(c, k) == c[CHOOSE n \in 1..Len(c) : c[n][1] = k][2]
HasAllFields(c) == HasField(c, "command") /\ HasField(c, "args") /\ HasField(c, "image")

\* {image, command, args} of a container
DetailsOf(c) ==
    [kind |-> "details", command |-> FieldOf(c, "command"), args |-> FieldOf(c, "args"),
     image |-> FieldOf(c, "image"), error |-> ""]

\* the entries of document d that bear the name asked for
Hits(d) == { pos \in EntryPositions(d) : EntryName(d, pos) = executor_name }

Before(p, q) == p[1] < q[1] \/ (p[1] = q[1] /\ p[2] < q[2])

IsFirstHit(d, pos) == pos \in Hits(d) /\ \A q \in Hits(d) : ~Before(q, pos)

\* d is the first document with a deploymentSpec key
IsFirstSpecDoc(d) == HasSpecKey(d) /\ \A e \in 1..(d - 1) : ~HasSpecKey(e)

\* d is the first document whose deploymentSpec is a non-empty mapping
IsFirstNonEmptySpecDoc(d) == Len(SpecOf(d)) > 0 /\ \A e \in 1..(d - 1) : Len(SpecOf(e)) = 0

Docs1 == 1..Len(documents)

IsIncompleteError ==
    located.kind = "ValueError" /\ located.error = "IncompleteContainerSpec"

IsNoDeploymentSpecError ==
    located.kind = "ValueError" /\ located.error = "NoDeploymentSpec"

(***************************************************************************)
(* Claims about get_executor_details, checked under SpecLocate.            *)
(***************************************************************************)

\* C1 as stated: whenever executor E appears in some executor group of some
\* deploymentSpec with a container that has command, args and image,
\* get_executor_details(documents, E) returns {image, command, args} of such
\* a container.
C1_AnyCompleteOccurrenceIsReturned ==
    Called =>
        \A d \in Docs1 : \A pos \in Hits(d) :
            HasAllFields(EntryContainer(d, pos)) =>
                \E e \in Docs1 : \E q \in Hits(e) :
                    /\ HasAllFields(EntryContainer(e, q))
                    /\ located = DetailsOf(EntryContainer(e, q))

\* C1 amended: when E appears in the first document that has a deploymentSpec
\* key and the first occurrence of E there, in group order, has a container
\* with command, args and image, get_executor_details returns exactly
\* {image, command, args} of that container, elements in their order,
\* whichever group holds it.
C1_FirstOccurrenceIsReturned ==
    Called =>
        \A d \in Docs1 : \A pos \in EntryPositions(d) :
            ( /\ IsFirstSpecDoc(d)
              /\ IsFirstHit(d, pos)
              /\ HasAllFields(EntryContainer(d, pos)) )
            => located = DetailsOf(EntryContainer(d, pos))

\* C1 witness: the executor was found in the second group of a document that
\* follows one without deploymentSpec, and its container was returned.
C1_Witness ==
    /\ Called
    /\ located.kind = "details"
    /\ Len(documents) = 2
    /\ ~HasSpecKey(1)
    /\ \E pos \in EntryPositions(2) :
         /\ IsFirstHit(2, pos)
         /\ pos[1] = 2
         /\ located = DetailsOf(EntryContainer(2, pos))

\* C2: when no document has a deploymentSpec key (the empty manifest
\* included), get_executor_details raises the NoDeploymentSpec ValueError for
\* every executor name, the empty string included.
C2_NoDeploymentSpecIsFatal ==
    (Called /\ \A d \in Docs1 : ~HasSpecKey(d)) => IsNoDeploymentSpecError

\* C2 witness: the empty executor name was looked up in a manifest of two
\* documents, none with deploymentSpec, and the lookup raised.
C2_Witness ==
    /\ Called
    /\ executor_name = ""
    /\ Len(documents) = 2
    /\ \A d \in Docs1 : ~HasSpecKey(d)
    /\ IsNoDeploymentSpecError

\* C3 as stated: when some document has a deploymentSpec key, whatever its
\* value, and E is in no executor group, get_executor_details returns None.
C3_AbsentExecutorIsNotFound ==
    ( /\ Called
      /\ \E d \in Docs1 : HasSpecKey(d)
      /\ \A d \in Docs1 : Hits(d) = {} )
    => located = ReturnNone

\* C4: when the first occurrence of E in the document that is searched has a
\* container without command, args or image, or no container at all,
\* get_executor_details raises the IncompleteContainerSpec ValueError, also
\* when a later group holds a complete executor of the same name.
C4_IncompleteContainerIsFatal ==
    Called =>
        \A d \in Docs1 : \A pos \in EntryPositions(d) :
            ( /\ IsFirstNonEmptySpecDoc(d)
              /\ IsFirstHit(d, pos)
              /\ ~HasAllFields(EntryContainer(d, pos)) )
            => IsIncompleteError

\* C4 witness: the first occurrence lacks a field, a later group holds a
\* complete executor of the same name, and the lookup raised.
C4_Witness ==
    /\ Called
    /\ IsIncompleteError
    /\ \E d \in Docs1 : \E pos, later \in Hits(d) :
         /\ IsFirstNonEmptySpecDoc(d)
         /\ IsFirstHit(d, pos)
         /\ ~HasAllFields(EntryContainer(d, pos))
         /\ Before(pos, later)
         /\ HasAllFields(EntryContainer(d, later))

\* C5 as stated: only the first document with a deploymentSpec key is
\* searched: an executor that is not in that document is never returned.
C5_OnlyFirstSpecDocIsSearched ==
    Called =>
        \A d \in Docs1 :
            (IsFirstSpecDoc(d) /\ Hits(d) = {}) => located.kind # "details"

(***************************************************************************)
(* Claims about remove_template_markers, checked under SpecResolve.        *)
(***************************************************************************)
Resolved == resolved.kind # "not_called"

Elements == 1..Len(rendered_code)

\* the text lit occurs in s
Contains(s, lit) ==
    \E i \in 1..Len(s) :
        /\ i + Len(lit) - 1 <= Len(s)
        /\ \A n \in 1..Len(lit) : s[i + n - 1] = lit[n]

\* the named hole {<executor_name>_<key>}
Hole(name, k) == <<"{">> \o name \o <<"_">> \o k \o <<"}">>

\* one of the three patterns matches somewhere in s
HasPlaceholder(s) ==
    \E i \in 1..Len(s) :
        \E pattern \in {InputPattern, OutputPattern, WholePattern} :
            MatchAt(pattern, s, i).matched

\* C6 as stated: every {{$.inputs.parameters['k']}} of every element is
\* rewritten to the named hole {<executor_name>_k}; the value bound to k is
\* not put in its place, whatever the binding holds.
C6_InputRefBecomesNamedHole ==
    Resolved =>
        \A n \in Elements : \A k \in Keys :
            Contains(rendered_code[n], InputRef(k)) =>
                /\ resolved.kind = "list"
                /\ Contains(resolved.value[n], Hole(resolver_name, k))
                /\ rendered_code[n] = InputRef(k) =>
                     /\ resolved.value[n] = Hole(resolver_name, k)
                     /\ ~Contains(resolved.value[n], BoundValue)

\* C7 as stated: the rules do not cross-substitute: an element that is an
\* input parameter reference becomes its named hole and does not hold the
\* serialized binding, for every key the pattern accepts, and an element
\* that is {{$}} becomes the serialized binding.
C7_NoCrossSubstitution ==
    resolved.kind = "list" =>
        \A n \in Elements :
            /\ \A k \in Keys :
                 rendered_code[n] = InputRef(k) =>
                     /\ resolved.value[n] = Hole(resolver_name, k)
                     /\ ~Contains(resolved.value[n], json_dumps(executor_input_param))
            /\ rendered_code[n] = WholeInput =>
                 resolved.value[n] = json_dumps(executor_input_param)

\* C8 as stated: a list whose strings hold none of the three patterns is
\* returned unchanged, for every executor name and every binding.
C8_NoPlaceholderUnchanged ==
    (Resolved /\ \A n \in Elements : ~HasPlaceholder(rendered_code[n]))
    => resolved = Returned(rendered_code)

\* C9 as stated: no element of the result holds any of the three placeholder
\* forms.
C9_NoResidualPlaceholder ==
    resolved.kind = "list" =>
        \A n \in 1..Len(resolved.value) : ~HasPlaceholder(resolved.value[n])

\* C10 as stated: output artifact path references with different keys are
\* rewritten to different tokens, none to nothing.
C10_ArtifactTokenKeyedByName ==
    resolved.kind = "list" =>
        \A n, m \in Elements : \A k1, k2 \in ArtifactKeys :
            ( /\ rendered_code[n] = OutputRef(k1)
              /\ rendered_code[m] = OutputRef(k2)
              /\ k1 # k2 )
            => /\ resolved.value[n] # resolved.value[m]
               /\ resolved.value[n] # <<>>

\* the element starts with the opening of a keyed pattern that does not match
\* there
StartsUnparsed(s) ==
    \E pattern \in {InputPattern, OutputPattern} :
        /\ LiteralAt(s, pattern.open, 1)
        /\ ~MatchAt(pattern, s, 1).matched

\* C11 as stated: when an element starts with the opening of a placeholder
\* whose key syntax does not parse, the call fails with MalformedPlaceholder;
\* it returns no list.
C11_UnparsedPrefixIsMalformed ==
    Resolved =>
        \A n \in Elements :
            StartsUnparsed(rendered_code[n]) => resolved.kind = "MalformedPlaceholder"

\* the match of one of the three patterns at position i of s (at most one of
\* them matches there: their openings differ)
AnyMatchAt(s, i) ==
    IF MatchAt(InputPattern, s, i).matched THEN MatchAt(InputPattern, s, i)
    ELSE IF MatchAt(OutputPattern, s, i).matched THEN MatchAt(OutputPattern, s, i)
    ELSE MatchAt(WholePattern, s, i)

\* the texts of s before, between and after the spans the patterns match,
\* from position i on, cur being the text since the last span
RECURSIVE Unmatched(_, _, _)
Unmatched(s, i, cur) ==
    LET starts == {j \in i..Len(s) : AnyMatchAt(s, j).matched}
    IN  IF starts = {} THEN <<cur \o SubSeq(s, i, Len(s))>>
        ELSE <<cur \o SubSeq(s, i, First(starts) - 1)>>
                 \o Unmatched(s, AnyMatchAt(s, First(starts)).next, <<>>)

\* the first position from p on where seg stands in out, 0 when there is none
FindFrom(out, seg, p) ==
    LET hits == {q \in p..(Len(out) - Len(seg) + 1) : LiteralAt(out, seg, q)}
    IN  IF hits = {} THEN 0 ELSE First(hits)

\* segs[n], segs[n + 1], ... stand in out from position p on, in this order
\* and without overlap, the last of them at the end of out
RECURSIVE Placed(_, _, _, _)
Placed(out, segs, n, p) ==
    IF n = Len(segs)
    THEN LET q == Len(out) - Len(segs[n]) + 1
         IN  q >= p /\ LiteralAt(out, segs[n], q)
    ELSE LET q == FindFrom(out, segs[n], p)
         IN  q # 0 /\ Placed(out, segs, n + 1, q + Len(segs[n]))

\* out is s with its matched spans replaced by some texts
KeepsFrame(s, out) ==
    LET segs == Unmatched(s, 1, <<>>)
    IN  IF Len(segs) = 1 THEN out = s
        ELSE /\ LiteralAt(out, segs[1], 1)
             /\ Placed(out, segs, 2, Len(segs[1]) + 1)

\* C12 as stated: in every element of a returned list the text before,
\* between and after the spans matched by a placeholder pattern is kept, in
\* the same order; only the matched spans are replaced.
C12_OnlyMatchedSpansChange ==
    resolved.kind = "list" =>
        \A n \in Elements : KeepsFrame(rendered_code[n], resolved.value[n])

\* texts without a placeholder that stand before or after a {{$}}
Plain == {<<>>, <<"s", "h">>}

\* C13 as stated: for every binding, a {{$}} between plain texts is replaced
\* by the JSON serialization of the binding, character for character.
C13_WholeInputIsExactJson ==
    Resolved =>
        \A n \in Elements : \A pre, post \in Plain :
            rendered_code[n] = pre \o WholeInput \o post =>
                /\ resolved.kind = "list"
                /\ resolved.value[n] = pre \o json_dumps(executor_input_param) \o post

(***************************************************************************)
(* Claims about change_dsl_function_to_normal_function, checked under      *)
(* SpecDsl.                                                                *)
(***************************************************************************)
\* the number of positions from i on where lit stands in s
Occurrences(s, lit, i) ==
    Cardinality({j \in i..Len(s) : LiteralAt(s, lit, j)})

\* C19 as stated: the returned text holds ".path" only as part of "os.path",
\* also where ".path" only forms once the removals and the replacements have
\* been applied, and it holds every "os.path" of the element it is made from.
C19_OnlyOsPathRemains ==
    normal_function.kind = "str" =>
        /\ \A i \in 1..Len(normal_function.value) :
               LiteralAt(normal_function.value, DotPath, i) =>
                   i >= 3 /\ LiteralAt(normal_function.value, OsPath, i - 2)
        /\ Occurrences(normal_function.value, OsPath, 1)
               >= Occurrences(rendered_code[Len(rendered_code)], OsPath, 1)

(***************************************************************************)
(* Claims about gen_standalone, checked under SpecGen.                     *)
(***************************************************************************)
\* the executors whose turn of the loop has run to its end
Processed == { i \in 1..Len(executors) : i < executor_index }

\* what get_executor_details gives for the i-th executor
LookupOf(i) == get_executor_details(documents, executors[i][1])

\* the key of details for the i-th executor and a suffix
SlotOf(i, suffix) == Camelize(executors[i][1]) \o suffix

\* the template refers to a name that details does not hold
MissingSlot ==
    \E n \in 1..Len(template_content) :
        /\ template_content[n].kind = "variable"
        /\ ~DictHas(details, template_content[n].name)

Failed == pc = "ended" /\ outcome # "returned"

\* C14: the output file is written only once the manifest is loaded, every
\* executor is looked up and resolved, and the template is read, parsed and
\* rendered; a run that fails leaves the file as it was.
C14_WrittenOnlyAfterEveryStep ==
    /\ standalone_script.written =>
           /\ pc = "ended" /\ outcome = "returned"
           /\ executor_index = Len(executors) + 1
           /\ \A i \in 1..Len(executors) : LookupOf(i).kind \in {"details", "none"}
           /\ Len(template_content) > 0 /\ ~SyntaxError(template_content)
           /\ standalone_script.text = render(template_content, details)
    /\ Failed => standalone_script = PreviousScript

\* a run that failed at the last step before rendering, the file untouched
C14_Witness ==
    /\ Failed
    /\ SyntaxError(template_content)
    /\ Len(details) > 0
    /\ standalone_script = PreviousScript

\* C15 as stated: when the template refers to <name>_image, <name>_command
\* or <name>_args of an executor that was not found, the command fails with
\* MissingTemplateSlot; such a template is never rendered to a script.
C15_MissingSlotIsFatal ==
    MissingSlot =>
        /\ pc # "write"
        /\ pc = "ended" => outcome = "MissingTemplateSlot"
        /\ ~standalone_script.written

\* C16 as stated: an unparseable manifest, a manifest without deploymentSpec,
\* an incomplete container, a template syntax error and a missing template
\* slot each end the command with Exit(1) after one line on the error
\* stream; none escapes as an unhandled exception, none lets the run go on.
C16_EveryFatalConditionExits ==
    pc = "ended" =>
        /\ outcome # "yaml.YAMLError"
        /\ ( \/ located.kind = "ValueError"
             \/ SyntaxError(template_content)
             \/ MissingSlot )
           => outcome = "Exit(1)" /\ Len(err_stream) = 1

RECURSIVE HoldsInOrder(_, _, _, _)
HoldsInOrder(text, elems, n, p) ==
    IF n > Len(elems) THEN TRUE
    ELSE LET q == FindFrom(text, elems[n], p)
         IN  q # 0 /\ HoldsInOrder(text, elems, n + 1, q + Len(elems[n]))

\* C18 as stated: the value of <name>_command holds every element of the
\* located command, cleaned, in the order of the command.
C18_CommandHoldsEveryElement ==
    \A i \in Processed :
        LET lookup == LookupOf(i)
            command == lookup.command
        IN  lookup.kind = "details" =>
                HoldsInOrder(DictAt(details, SlotOf(i, CommandSuffix)),
                             [n \in 1..Len(command) |-> Strip(CleanLine(command[n]))],
                             1, 1)

\* C18, amended: the value of <name>_command is the last element of the
\* located command, cleaned and without the whitespace around it; the
\* elements before the last one are not part of it.
C18_CommandIsLastElement ==
    \A i \in Processed :
        LET lookup == LookupOf(i)
            command == lookup.command
        IN  (lookup.kind = "details" /\ Len(command) > 0) =>
                DictAt(details, SlotOf(i, CommandSuffix))
                    = Strip(CleanLine(command[Len(command)]))

\* a command of three elements has given the text of its last one
C18_Witness ==
    \E i \in Processed :
        /\ LookupOf(i).kind = "details"
        /\ LookupOf(i).command = GenCommand1
        /\ DictAt(details, SlotOf(i, CommandSuffix)) = <<"f", "(", "x", ")">>

MaxEntries == 3
\* overall scores are 1..MaxScore
MaxScore == 2
\* the parameter retries of launch_vllm (mt_bench.py:86; 120 by default),
\* kept small
retries == 2

FolderName == <<"m">>
ModelA == <<"a">>
ModelB == <<"b">>
CandidateModel ==
    <<"c", "a", "n", "d", "i", "d", "a", "t", "e", "_", "m", "o", "d", "e", "l">>
AnswersFile == <<"a", ".", "j", "s", "o", "n", "l">>
JsonlSuffix == <<".", "j", "s", "o", "n", "l">>

\* str.endswith
EndsWith(str, suffix) ==
    /\ Len(str) >= Len(suffix)
    /\ SubSeq(str, Len(str) - Len(suffix) + 1, Len(str)) = suffix

NoPath == [abs |-> FALSE, parts |-> <<>>]

\* f"{models_folder}/{model_name}" (mt_bench.py:195) and os.path.join of a
\* path and a name
Slash(folder, entry) ==
    [abs |-> folder.abs, parts |-> Append(folder.parts, entry)]

\* os.path.join(a, b): an absolute b discards a
PathJoin(a, b) ==
    IF b.abs THEN b ELSE [abs |-> a.abs, parts |-> a.parts \o b.parts]

\* path p is dir or lies under dir
Under(p, dir) ==
    /\ p.abs = dir.abs
    /\ Len(p.parts) >= Len(dir.parts)
    /\ SubSeq(p.parts, 1, Len(dir.parts)) = dir.parts

\* os.listdir(folder), as a set
ListDir(fs, folder) ==
    {p.parts[Len(folder.parts) + 1] :
        p \in {q \in fs : Under(q, folder) /\ Len(q.parts) > Len(folder.parts)}}

\* os.rename(src, dst) of an existing src to a dst that does not exist: the
\* directory and what is under it move
MoveTree(fs, src, dst) ==
    {p \in fs : ~Under(p, src)}
        \cup {[abs |-> dst.abs,
               parts |-> dst.parts
                   \o SubSeq(p.parts, Len(src.parts) + 1, Len(p.parts))] :
                 p \in {q \in fs : Under(q, src)}}

\* the orders os.listdir may give the entries in
Orderings(S) ==
    {list \in [1..Cardinality(S) -> S] :
        \A i, j \in 1..Cardinality(S) : list[i] = list[j] => i = j}

\* [model for model in models_list if not model.endswith(".jsonl")]
\* (mt_bench.py:192)
RECURSIVE WithoutJsonl(_)
WithoutJsonl(list) ==
    IF Len(list) = 0 THEN <<>>
    ELSE IF EndsWith(Head(list), JsonlSuffix) THEN WithoutJsonl(Tail(list))
    ELSE <<Head(list)>> \o WithoutJsonl(Tail(list))

\* max(scores, key=scores.get) (mt_bench.py:238): the first key, in
\* insertion order, whose value no other value exceeds.  A faulty variant
\* keeps the last such key.
RECURSIVE MaxKeyLast(_, _, _)
MaxKeyLast(d, i, best) ==
    IF i > Len(d) THEN d[best][1]
    ELSE MaxKeyLast(d, i + 1, IF d[i][2] >= d[best][2] THEN i ELSE best)

RECURSIVE MaxKey(_, _, _)
MaxKey(d, i, best) ==
    IF i > Len(d) THEN d[best][1]
    ELSE MaxKey(d, i + 1, IF d[i][2] > d[best][2] THEN i ELSE best)

\* shutdown_vllm(process) (mt_bench.py:136-162): the process is terminated,
\* or killed when it does not end in time.  A faulty variant returns with
\* the process left running.
shutdown_vllm_leaving(running, process) == running

shutdown_vllm(running, process) == running \ {process}

\* how run_mt_bench_op ends
Outputs(best_model, best_score) ==
    [kind |-> "outputs", best_model |-> best_model, best_score |-> best_score]
Raised(exception) == [kind |-> exception, best_model |-> NoPath, best_score |-> 0]

\* the inputs the model draws from
Folders == {[abs |-> a, parts |-> <<FolderName>>] : a \in BOOLEAN}
EntryNames == {ModelA, ModelB, FolderName, CandidateModel, AnswersFile}
NestedNames == {ModelA, ModelB}
Scores == 1..MaxScore
Polls == {"200", "503", "ConnectionError"}

\* models_folder with the entries E; its entry of the folder's own name, when
\* there is one, is a directory with the entries N
Tree(folder, E, N) ==
    {Slash(folder, e) : e \in E}
        \cup {Slash(Slash(folder, FolderName), n) : n \in N}

InitMtBench ==
    /\ models_folder \in Folders
    /\ \E E \in SUBSET EntryNames :
           /\ Cardinality(E) <= MaxEntries
           /\ \E N \in SUBSET NestedNames :
                  /\ FolderName \in E \/ N = {}
                  /\ files = Tree(models_folder, E, N)
    /\ models_list = <<>>
    /\ model_index = 0
    /\ attempt = 0
    /\ status_code = "none"
    /\ servers = {}
    /\ scores = <<>>
    /\ mt_pc = "listdir"
    /\ outputs = NotEnded

model_path == Slash(models_folder, models_list[model_index])

\* mt_bench.py:174-192
ListModels ==
    /\ mt_pc = "listdir"
    /\ \E list \in Orderings(ListDir(files, models_folder)) :
           /\ models_list' = WithoutJsonl(list)
           /\ IF Len(WithoutJsonl(list)) = 0
              THEN mt_pc' = "best" /\ model_index' = 0
              ELSE mt_pc' = "launch" /\ model_index' = 1
    /\ UNCHANGED <<models_folder, files, attempt, status_code, servers, scores,
                   outputs>>

\* launch_vllm up to the loop (mt_bench.py:197, 85-116): the server process
\* is started
LaunchVllm ==
    /\ mt_pc = "launch"
    /\ servers' = servers \cup {model_path}
    /\ attempt' = 0
    /\ status_code' = "none"
    /\ mt_pc' = "poll"
    /\ UNCHANGED <<models_folder, files, models_list, model_index, scores,
                   outputs>>

\* one turn of the loop of launch_vllm (mt_bench.py:118-134)
PollVllm ==
    /\ mt_pc = "poll"
    /\ \E response \in Polls :
           /\ status_code' = response
           /\ IF response = "200"
              THEN /\ mt_pc' = "gen_answers"
                   /\ UNCHANGED <<attempt, outputs>>
              ELSE /\ attempt' = attempt + 1
                   /\ IF attempt + 1 = retries
                      THEN /\ mt_pc' = "ended"
                           /\ outputs' = Raised("RuntimeError")
                      ELSE /\ mt_pc' = "poll"
                           /\ UNCHANGED outputs
    /\ UNCHANGED <<models_folder, files, models_list, model_index, servers,
                   scores>>

\* evaluator.gen_answers (mt_bench.py:199-212), which may raise
GenAnswers ==
    /\ mt_pc = "gen_answers"
    /\ \/ mt_pc' = "shutdown" /\ UNCHANGED outputs
       \/ mt_pc' = "ended" /\ outputs' = Raised("Exception")
    /\ UNCHANGED <<models_folder, files, models_list, model_index, attempt,
                   status_code, servers, scores>>

\* mt_bench.py:214
ShutdownVllm ==
    /\ mt_pc = "shutdown"
    /\ servers' = shutdown_vllm(servers, model_path)
    /\ mt_pc' = "judge"
    /\ UNCHANGED <<models_folder, files, models_list, model_index, attempt,
                   status_code, scores, outputs>>

\* evaluator.judge_answers and the end of the loop turn (mt_bench.py:216-235)
JudgeAnswers ==
    /\ mt_pc = "judge"
    /\ \E overall_score \in Scores :
           scores' = DictPut(scores, model_path, overall_score)
    /\ IF model_index = Len(models_list)
       THEN mt_pc' = "best" /\ UNCHANGED model_index
       ELSE mt_pc' = "launch" /\ model_index' = model_index + 1
    /\ UNCHANGED <<models_folder, files, models_list, attempt, status_code,
                   servers, outputs>>

\* mt_bench.py:237-259
BestModel ==
    /\ mt_pc = "best"
    /\ mt_pc' = "ended"
    /\ IF Len(scores) = 0
       THEN outputs' = Raised("ValueError") /\ UNCHANGED files
       ELSE LET best_model == MaxKey(scores, 2, 1)
                best_score == DictAt(scores, best_model)
                candidate == Slash(models_folder, CandidateModel)
                src == PathJoin(models_folder, best_model)
            IN  IF candidate \in files
                THEN /\ outputs' = Outputs(best_model, best_score)
                     /\ UNCHANGED files
                ELSE IF src \in files
                THEN /\ files' = MoveTree(files, src, candidate)
                     /\ outputs' = Outputs(best_model, best_score)
                ELSE /\ outputs' = Raised("FileNotFoundError")
                     /\ UNCHANGED files
    /\ UNCHANGED <<models_folder, models_list, model_index, attempt,
                   status_code, servers, scores>>

MtBenchInit ==
    /\ InitMtBench
    /\ IdleLocate /\ IdleResolve /\ IdleDsl /\ IdleGen
    /\ IdleDag /\ IdleEval /\ IdleJob

not_mt_vars == <<locate_vars, resolve_vars, dsl_vars, gen_vars, dag_vars,
                 eval_vars, job_vars>>

MtBenchNext ==
    \/ ListModels /\ UNCHANGED not_mt_vars
    \/ LaunchVllm /\ UNCHANGED not_mt_vars
    \/ PollVllm /\ UNCHANGED not_mt_vars
    \/ GenAnswers /\ UNCHANGED not_mt_vars
    \/ ShutdownVllm /\ UNCHANGED not_mt_vars
    \/ JudgeAnswers /\ UNCHANGED not_mt_vars
    \/ BestModel /\ UNCHANGED not_mt_vars

SpecMtBench == MtBenchInit /\ [][MtBenchNext]_vars

(***************************************************************************)
(* Claims about run_mt_bench_op.                                           *)
(***************************************************************************)

\* run_mt_bench_op has returned its outputs
Completed == outputs.kind = "outputs"

\* <models_folder>/candidate_model
CandidatePath == Slash(models_folder, CandidateModel)

\* C21: when run_mt_bench_op completes, the directory of the best-scoring
\* model has been renamed to <models_folder>/candidate_model if and only if
\* no candidate_model entry existed before; when one existed, nothing is
\* renamed and the file system is left as it was.
C21_RenamedIffNoCandidate ==
    [][(mt_pc = "best" /\ Completed') =>
          IF CandidatePath \in files
          THEN files' = files
          ELSE files' = MoveTree(files, outputs'.best_model, CandidatePath)]_vars

\* the models that have a score
Evaluated == {scores[i][1] : i \in 1..Len(scores)}

\* position of a model in the order of evaluation
EvaluatedAt(path) == CHOOSE i \in 1..Len(scores) : scores[i][1] = path

\* C22: the best_model returned is an evaluated model whose score no
\* evaluated model exceeds, the first evaluated one among equals; best_score
\* is its score; no entry whose name ends in ".jsonl" is served or scored;
\* with no model to evaluate the component raises instead of returning.
C22_BestModelIsFirstMaximum ==
    /\ \A path \in servers \cup Evaluated :
           ~EndsWith(path.parts[Len(path.parts)], JsonlSuffix)
    /\ Completed =>
           /\ outputs.best_model \in Evaluated
           /\ outputs.best_score = DictAt(scores, outputs.best_model)
           /\ \A i \in 1..Len(scores) :
                  /\ scores[i][2] <= outputs.best_score
                  /\ scores[i][2] = outputs.best_score
                         => EvaluatedAt(outputs.best_model) <= i
    /\ (mt_pc = "ended" /\ Len(scores) = 0 /\ Len(models_list) = 0)
           => outputs.kind = "ValueError"

\* two models tie for the best score, and the folder holds a .jsonl entry
\* that was left out
C22_Witness ==
    /\ Completed
    /\ Len(scores) = 2
    /\ scores[1][2] = scores[2][2]
    /\ outputs.best_model = scores[1][1]
    /\ Slash(models_folder, AnswersFile) \in files

\* no model to evaluate: the component has raised
C22_WitnessEmpty ==
    /\ mt_pc = "ended"
    /\ Len(models_list) = 0
    /\ outputs.kind = "ValueError"

C27_WitnessRaised ==
    /\ outputs.kind = "RuntimeError"
    /\ model_index = 2
    /\ attempt = retries

(***************************************************************************)
(* Part 6: the task graph built by pipeline (src/pipeline.py:188-578).     *)
(*                                                                         *)
(* A task is named by the variable the code binds it to; a CreatePVC task  *)
(* is named by its pvc_name_suffix, and so is the PVC it creates.  A task  *)
(* depends on the tasks given to .after() and on the tasks whose outputs   *)
(* it takes.  Kubeflow Pipelines starts a task of an enabled branch once   *)
(* the tasks it depends on have succeeded.                                 *)
(***************************************************************************)

\* a component call
Op(task_name) ==
    [name |-> task_name, after |-> {}, mounts |-> {}, deletes |-> "none"]

\* task.after(*others).  A faulty variant records no ordering.
after_dropped(task, others) == task

after(task, others) == [task EXCEPT !.after = @ \cup others]

\* a task that takes outputs of other tasks as arguments
taking(task, others) == [task EXCEPT !.after = @ \cup others]

\* mount_pvc(task=task, pvc_name=pvc_task.output, mount_path=mount_path)
mount_pvc(task, pvc_task, mount_path) ==
    taking([task EXCEPT !.mounts = @ \cup {<<pvc_task, mount_path>>}], {pvc_task})

\* DeletePVC(pvc_name=pvc_task.output)
DeletePVC(task_name, pvc_task) ==
    taking([Op(task_name) EXCEPT !.deletes = pvc_task], {pvc_task})

\* create_pvcs() (pipeline.py:188-210): what it returns, in the order of the
\* return statement
create_pvcs == <<"-model-cache", "-sdg", "-output">>

\* output_pvc_task, sdg_input_pvc_task, model_pvc_task = create_pvcs()
\* (pipeline.py:536, 545, 555, 567)
output_pvc_task == create_pvcs[1]
sdg_input_pvc_task == create_pvcs[2]
model_pvc_task == create_pvcs[3]

CreatePVCs == {Op(create_pvcs[i]) : i \in 1..Len(create_pvcs)}

\* delete_pvcs (pipeline.py:212-218)
delete_pvcs(model_pvc, sdg_input_pvc, output_pvc, after_task) ==
    {after(DeletePVC("output_pvc_delete_task", output_pvc), {after_task}),
     after(DeletePVC("sdg_input_pvc_delete_task", sdg_input_pvc), {after_task}),
     after(DeletePVC("model_pvc_delete_task", model_pvc), {after_task})}

\* sdg_stage (pipeline.py:220-277)
sdg_stage ==
    {mount_pvc(Op("git_clone_task"), sdg_input_pvc_task, "/data"),
     mount_pvc(after(Op("sdg_task"), {"git_clone_task"}),
               sdg_input_pvc_task, "/data"),
     mount_pvc(after(Op("taxonomy_to_artifact_task"),
                     {"git_clone_task", "sdg_task"}),
               sdg_input_pvc_task, "/data"),
     mount_pvc(after(Op("sdg_to_artifact_task"), {"git_clone_task", "sdg_task"}),
               sdg_input_pvc_task, "/data")}

\* sdg_task = get_training_data() (pipeline.py:557)
get_training_data == {Op("sdg_task")}

\* train_stage (pipeline.py:279-423)
train_stage ==
    {mount_pvc(Op("model_to_pvc_task"), model_pvc_task, "/model"),
     after(mount_pvc(mount_pvc(Op("data_processing_task"),
                               model_pvc_task, "/model"),
                     sdg_input_pvc_task, "/data"),
           {"model_to_pvc_task", "sdg_task"}),
     mount_pvc(after(Op("skills_processed_data_to_artifact_task"),
                     {"data_processing_task"}),
               sdg_input_pvc_task, "/data"),
     mount_pvc(after(Op("knowledge_processed_data_to_artifact_task"),
                     {"data_processing_task"}),
               sdg_input_pvc_task, "/data"),
     taking(Op("pytorchjob_manifest_task"),
            {model_pvc_task, sdg_input_pvc_task, output_pvc_task}),
     after(taking(Op("kubectl_apply_task"), {"pytorchjob_manifest_task"}),
           {"data_processing_task", "model_to_pvc_task"}),
     after(taking(Op("kubectl_wait_task"), {"pytorchjob_manifest_task"}),
           {"kubectl_apply_task"}),
     mount_pvc(after(taking(Op("pytorchjob_manifest_2_task"),
                            {model_pvc_task, sdg_input_pvc_task,
                             output_pvc_task}),
                     {"kubectl_wait_task"}),
               output_pvc_task, "/output"),
     taking(Op("kubectl_apply_2_task"), {"pytorchjob_manifest_2_task"}),
     after(taking(Op("kubectl_wait_2_task"), {"pytorchjob_manifest_2_task"}),
           {"kubectl_apply_2_task"}),
     mount_pvc(after(Op("models_list_2_task"), {"kubectl_wait_2_task"}),
               output_pvc_task, "/output")}

\* mt_bench_stage (pipeline.py:425-456)
mt_bench_stage ==
    {mount_pvc(taking(Op("run_mt_bench_task"), {"models_list_2_task"}),
               output_pvc_task, "/output")}

\* final_eval_stage (pipeline.py:458-507)
final_eval_stage ==
    {after(mount_pvc(mount_pvc(mount_pvc(Op("final_eval_task"),
                                         output_pvc_task, "/output"),
                               sdg_input_pvc_task, "/input"),
                     model_pvc_task, "/model"),
           {"run_mt_bench_task"})}

\* outputs_to_artifacts (pipeline.py:509-529)
outputs_to_artifacts ==
    {mount_pvc(after(Op("output_model_task"), {"run_mt_bench_task"}),
               output_pvc_task, "/output"),
     mount_pvc(after(Op("output_mt_bench_task"), {"run_mt_bench_task"}),
               output_pvc_task, "/output")}

\* pipeline_param == value, for a pipeline parameter: the comparison is not
\* made when the graph is built, it gives a condition for the run to
\* evaluate
Comparison(pipeline_param, value) ==
    [operator |-> "==", left |-> pipeline_param, right |-> value]

\* bool(x) of Python, for the condition a comparison gives: an object that
\* defines neither __bool__ nor __len__
Truthy(x) == x.operator \in {"==", "!=", "<", "<=", ">", ">="}

\* x and y of Python
PyAnd(x, y) == IF Truthy(x) THEN y ELSE x

Branches == {"Skip Condition", "SDG Only", "Train Only", "All Stages"}

\* the conditions of the four dsl.If (pipeline.py:535, 544, 554, 566)
Condition(name) ==
    CASE name = "Skip Condition" ->
             PyAnd(Comparison("sdg_only", TRUE), Comparison("train_only", TRUE))
      [] name = "SDG Only" ->
             PyAnd(Comparison("sdg_only", TRUE), Comparison("train_only", FALSE))
      [] name = "Train Only" ->
             PyAnd(Comparison("train_only", TRUE), Comparison("sdg_only", FALSE))
      [] name = "All Stages" ->
             PyAnd(Comparison("sdg_only", FALSE), Comparison("train_only", FALSE))

\* the tasks of the four dsl.If (pipeline.py:535-578)
Tasks(name) ==
    CASE name = "Skip Condition" ->
             CreatePVCs
                 \cup delete_pvcs(model_pvc_task, sdg_input_pvc_task,
                                  output_pvc_task, output_pvc_task)
      [] name = "SDG Only" ->
             CreatePVCs \cup sdg_stage
                 \cup delete_pvcs(model_pvc_task, sdg_input_pvc_task,
                                  output_pvc_task, "sdg_task")
      [] name = "Train Only" ->
             CreatePVCs \cup get_training_data \cup train_stage
                 \cup delete_pvcs(model_pvc_task, sdg_input_pvc_task,
                                  output_pvc_task, output_pvc_task)
      [] name = "All Stages" ->
             CreatePVCs \cup sdg_stage \cup train_stage \cup mt_bench_stage
                 \cup final_eval_stage \cup outputs_to_artifacts
                 \cup delete_pvcs(model_pvc_task, sdg_input_pvc_task,
                                  output_pvc_task, "final_eval_task")
      [] OTHER -> {}

\* the run evaluates the condition of a dsl.If with the values of the
\* parameters
Holds(condition, sdg, train) ==
    (IF condition.left = "sdg_only" THEN sdg ELSE train) = condition.right

EnabledBranches(sdg, train) ==
    {name \in Branches : Holds(Condition(name), sdg, train)}

InitDag ==
    /\ sdg_only \in BOOLEAN
    /\ train_only \in BOOLEAN
    /\ branch \in EnabledBranches(sdg_only, train_only)
    /\ started = {}
    /\ finished = {}

\* a task whose dependencies have succeeded starts
StartTask ==
    /\ \E task \in Tasks(branch) :
           /\ task.name \notin started
           /\ task.after \subseteq finished
           /\ started' = started \cup {task.name}
    /\ UNCHANGED <<sdg_only, train_only, branch, finished>>

\* a started task succeeds
FinishTask ==
    /\ \E task_name \in started \ finished :
           finished' = finished \cup {task_name}
    /\ UNCHANGED <<sdg_only, train_only, branch, started>>

DagInit ==
    /\ InitDag
    /\ IdleLocate /\ IdleResolve /\ IdleDsl /\ IdleGen
    /\ IdleMtBench /\ IdleEval /\ IdleJob

not_dag_vars == <<locate_vars, resolve_vars, dsl_vars, gen_vars, mt_vars,
                  eval_vars, job_vars>>

DagNext ==
    \/ StartTask /\ UNCHANGED not_dag_vars
    \/ FinishTask /\ UNCHANGED not_dag_vars

SpecDag == DagInit /\ [][DagNext]_vars

(***************************************************************************)
(* Claims about the task graph.                                            *)
(***************************************************************************)

\* the tasks of the branch that mount the PVC of a CreatePVC task
MountersOf(pvc_task) ==
    {task \in Tasks(branch) : \E m \in task.mounts : m[1] = pvc_task}

\* C23: in every branch, a DeletePVC task starts only when every task that
\* mounts the PVC it deletes has finished.
C23_DeleteAfterEveryMounter ==
    \A task \in Tasks(branch) :
        (task.deletes # "none" /\ task.name \in started) =>
            \A user \in MountersOf(task.deletes) : user.name \in finished

\* C24: for every value of sdg_only and train_only exactly one of the four
\* branches is enabled.
C24_ExactlyOneBranch ==
    Cardinality(EnabledBranches(sdg_only, train_only)) = 1

\* the pvc_name_suffix the claim gives for a mount path
SuffixFor(mount_path) ==
    CASE mount_path = "/model" -> "-model-cache"
      [] mount_path = "/output" -> "-output"
      [] mount_path = "/data" -> "-sdg"
      [] OTHER -> "any"

\* C25: in every branch the PVC mounted at /model is the one created with
\* suffix "-model-cache", the one mounted at /output the one created with
\* suffix "-output", the one mounted at /data the one created with suffix
\* "-sdg".
C25_MountsMatchSuffixes ==
    \A task \in Tasks(branch) :
        task.name \in started =>
            \A m \in task.mounts :
                SuffixFor(m[2]) # "any" => m[1] = SuffixFor(m[2])

\* a task has started only with the others finished
OnlyAfter(task_name, others) == task_name \in started => others \subseteq finished

\* C26: in All Stages, data processing starts only after the SDG task and
\* the model import have finished, the phase-1 job is applied only after
\* data processing, the phase-2 job is applied only after the wait for phase
\* 1, MT-Bench runs only after the wait for phase 2 and the model listing,
\* and the final evaluation runs only after MT-Bench.
C26_AllStagesOrder ==
    branch = "All Stages" =>
        /\ OnlyAfter("data_processing_task", {"sdg_task", "model_to_pvc_task"})
        /\ OnlyAfter("kubectl_apply_task", {"data_processing_task"})
        /\ OnlyAfter("kubectl_apply_2_task", {"kubectl_wait_task"})
        /\ OnlyAfter("run_mt_bench_task",
                     {"kubectl_wait_2_task", "models_list_2_task"})
        /\ OnlyAfter("final_eval_task", {"run_mt_bench_task"})

\* the final evaluation of All Stages has started
C26_Witness ==
    /\ branch = "All Stages"
    /\ "final_eval_task" \in started
    /\ {"data_processing_task", "kubectl_apply_task", "kubectl_apply_2_task",
        "run_mt_bench_task"} \subseteq finished

(***************************************************************************)
(* Part 7: the branch summary of run_final_eval_op                         *)
(* (src/eval/final/components.py:49-101, 293-330).                         *)
(*                                                                         *)
(* A score is a number of thousandths.  A qna name is only copied and      *)
(* compared: it is a TLA+ string.                                          *)
(***************************************************************************)

\* at most this many qnas in a dict of scores
MaxQnas == 2

\* round(x, 2), for an x that is not halfway between two hundredths
Round2(x) ==
    IF x >= 0 THEN ((x + 5) \div 10) * 10 ELSE 0 - (((0 - x) + 5) \div 10) * 10

\* sort_score of instructlab.model.evaluate: the delta of an entry
sort_score(entry) == entry[2]

\* list.sort(key=sort_score, reverse=reverse): stable in both directions
RECURSIVE SortedInsert(_, _, _)
SortedInsert(sorted, entry, reverse) ==
    IF Len(sorted) = 0 THEN <<entry>>
    ELSE IF (IF reverse THEN sort_score(Head(sorted)) >= sort_score(entry)
             ELSE sort_score(Head(sorted)) <= sort_score(entry))
    THEN <<Head(sorted)>> \o SortedInsert(Tail(sorted), entry, reverse)
    ELSE <<entry>> \o sorted

RECURSIVE Sort(_, _)
Sort(list, reverse) ==
    IF Len(list) = 0 THEN <<>>
    ELSE SortedInsert(Sort(SubSeq(list, 1, Len(list) - 1), reverse),
                      list[Len(list)], reverse)

\* the loop of final/components.py:295-319, from item i on
RECURSIVE Classify(_, _, _, _)
Classify(candidate, base, i, lists) ==
    IF i > Len(candidate) THEN lists
    ELSE LET qna == candidate[i][1]
             avg_score == candidate[i][2]
             base_avg_score == DictGet(base, qna)
             delta == <<qna, Round2(avg_score - base_avg_score.value),
                        base_avg_score.value, avg_score>>
         IN  Classify(candidate, base, i + 1,
                 IF base_avg_score.none
                 THEN [lists EXCEPT !.new = Append(@, <<qna, avg_score>>)]
                 ELSE IF avg_score > base_avg_score.value
                 THEN [lists EXCEPT !.improvements = Append(@, delta)]
                 ELSE IF avg_score = base_avg_score.value
                 THEN [lists EXCEPT !.no_changes = Append(@, <<qna, avg_score>>)]
                 ELSE [lists EXCEPT !.regressions = Append(@, delta)])

\* the entries of the summary (final/components.py:64-99)
DeltaEntry(entry) ==
    [task |-> entry[1], base_score |-> Round2(entry[3]),
     new_score |-> Round2(entry[4]), delta |-> entry[2]]

AverageEntry(entry) == [task |-> entry[1], average_score |-> Round2(entry[2])]

NewEntry(entry, qna) == [qna |-> qna, average_score |-> Round2(entry[2])]

\* branch_eval_summary_to_json(improvements, regressions, no_changes, new)
\* (final/components.py:49-101); qna is the variable of the enclosing
\* run_final_eval_op that line 98 reads
branch_eval_summary_to_json(improvements, regressions, no_changes, new, qna) ==
    LET improved == Sort(improvements, TRUE)
        regressed == Sort(regressions, FALSE)
    IN  [called |-> TRUE,
         improvements |->
             [i \in 1..Len(improved) |-> DeltaEntry(improved[i])],
         regressions |->
             [i \in 1..Len(regressed) |-> DeltaEntry(regressed[i])],
         no_changes |->
             [i \in 1..Len(no_changes) |-> AverageEntry(no_changes[i])],
         new |-> [i \in 1..Len(new) |-> NewEntry(new[i], qna)]]

\* what the variable qna of run_final_eval_op holds once the loop of line
\* 295 has ended: the last key of qna_to_avg_scores; it is unbound, and never
\* read, when the dict is empty
QnaAfterLoop(candidate) ==
    IF Len(candidate) = 0 THEN "unbound" ELSE candidate[Len(candidate)][1]

\* final/components.py:293-330
BranchSummary(candidate, base) ==
    LET lists == Classify(candidate, base, 1,
                          [improvements |-> <<>>, regressions |-> <<>>,
                           no_changes |-> <<>>, new |-> <<>>])
    IN  branch_eval_summary_to_json(lists.improvements, lists.regressions,
                                    lists.no_changes, lists.new,
                                    QnaAfterLoop(candidate))

\* the inputs the model draws from
Qnas == {"a", "b", "c"}
QnaScores == {500, 504, 507}
ScoreDicts ==
    {d \in UNION {[1..n -> Qnas \X QnaScores] : n \in 0..MaxQnas} :
        \A i, j \in 1..Len(d) : d[i][1] = d[j][1] => i = j}

InitEval ==
    /\ qna_to_avg_scores \in ScoreDicts
    /\ base_qna_to_avg_scores \in ScoreDicts
    /\ summary = NoSummary

Summarize ==
    /\ ~summary.called
    /\ summary' = BranchSummary(qna_to_avg_scores, base_qna_to_avg_scores)
    /\ UNCHANGED <<qna_to_avg_scores, base_qna_to_avg_scores>>

EvalInit ==
    /\ InitEval
    /\ IdleLocate /\ IdleResolve /\ IdleDsl /\ IdleGen
    /\ IdleMtBench /\ IdleDag /\ IdleJob

EvalNext ==
    Summarize /\ UNCHANGED <<locate_vars, resolve_vars, dsl_vars, gen_vars,
                             mt_vars, dag_vars, job_vars>>

SpecEval == EvalInit /\ [][EvalNext]_vars

\* the names in a list of the summary
RECURSIVE NamesIn(_, _)
NamesIn(list, field) ==
    IF Len(list) = 0 THEN <<>>
    ELSE <<IF field = "qna" THEN Head(list).qna ELSE Head(list).task>>
             \o NamesIn(Tail(list), field)

\* how many entries of the four lists of the summary name a qna
Landings(qna) ==
    LET names == NamesIn(summary.improvements, "task")
                     \o NamesIn(summary.regressions, "task")
                     \o NamesIn(summary.no_changes, "task")
                     \o NamesIn(summary.new, "qna")
    IN  Cardinality({i \in 1..Len(names) : names[i] = qna})

\* C28: every qna of the candidate's scores lands in exactly one of the four
\* lists of the summary, and a qna that is absent from the base scores has
\* one entry of the list "new" under its own name with its own average
\* score.
C28_NewEntryNamesItsQna ==
    summary.called =>
        \A i \in 1..Len(qna_to_avg_scores) :
            LET qna == qna_to_avg_scores[i][1]
                avg_score == qna_to_avg_scores[i][2]
            IN  /\ Landings(qna) = 1
                /\ ~DictHas(base_qna_to_avg_scores, qna) =>
                       Cardinality({n \in 1..Len(summary.new) :
                           summary.new[n]
                               = [qna |-> qna,
                                  average_score |-> Round2(avg_score)]}) = 1

(***************************************************************************)
(* Part 8: the job name of pytorchjob_manifest_op                          *)
(* (src/training/components.py:10-19, 134).  A string is the sequence of   *)
(* its characters.                                                         *)
(***************************************************************************)

\* at most this many characters in name_suffix
MaxSuffixLen == 5

TrainPrefix == <<"t", "r", "a", "i", "n", "-">>
SdgSuffix == <<"-", "s", "d", "g">>

\* the characters of a string, as a set
CharsOf(str) == {str[i] : i \in 1..Len(str)}

\* str.rstrip(chars): trailing characters that are among chars are removed
RECURSIVE rstrip(_, _)
rstrip(str, chars) ==
    IF Len(str) > 0 /\ str[Len(str)] \in CharsOf(chars)
    THEN rstrip(SubSeq(str, 1, Len(str) - 1), chars)
    ELSE str

\* name = f"train-{name_suffix.rstrip('-sdg')}" (training/components.py:19)
JobName(suffix) == TrainPrefix \o rstrip(suffix, SdgSuffix)

SuffixChars == {"a", "s", "d", "g", "-"}

InitJob ==
    /\ \E n \in 0..MaxSuffixLen : name_suffix \in [1..n -> SuffixChars]
    /\ job_name = NoName

\* pytorchjob_manifest_op (training/components.py:10-134): the name it
\* returns
PytorchjobManifest ==
    /\ ~job_name.called
    /\ job_name' = [called |-> TRUE, value |-> JobName(name_suffix)]
    /\ UNCHANGED name_suffix

JobInit ==
    /\ InitJob
    /\ IdleLocate /\ IdleResolve /\ IdleDsl /\ IdleGen
    /\ IdleMtBench /\ IdleDag /\ IdleEval

JobNext ==
    PytorchjobManifest /\ UNCHANGED <<locate_vars, resolve_vars, dsl_vars,
                                      gen_vars, mt_vars, dag_vars, eval_vars>>

SpecJob == JobInit /\ [][JobNext]_vars

\* C29: the job is named "train-" followed by name_suffix without a trailing
\* "-sdg", everything else kept: "train-" + X for a name_suffix X + "-sdg",
\* and "train-" + name_suffix for one that does not end in "-sdg".
C29_OnlySdgSuffixIsRemoved ==
    job_name.called =>
        job_name.value =
            TrainPrefix \o
                (IF EndsWith(name_suffix, SdgSuffix)
                 THEN SubSeq(name_suffix, 1, Len(name_suffix) - Len(SdgSuffix))
                 ELSE name_suffix)

====
